---- MODULE Spec2Model ----
(***************************************************************************)
(* scrutiny-chain: the two aggregation engines (SecurityAnalyzer and       *)
(* TransactionProcessor), the risk-level derivation and the plugin         *)
(* failure policies, as state machines over a bounded pool of plugins.     *)
(***************************************************************************)
EXTENDS Integers, Sequences, FiniteSets, TLC

VARIABLES
    scanners,      \* SecurityAnalyzer.scanners: registered scanners, in order
    saPc,          \* analyze_contract: "idle", "scan" (in the loop) or "done"
    saAddr,        \* analyze_contract: the address argument
    saIdx,         \* analyze_contract: 1-based position of the loop
    saFindings,    \* analyze_contract: the local `findings`
    saMeta,        \* analyze_contract: the local `metadata`
    saResult,      \* analyze_contract: the returned Result
    saInvoked,     \* analyze_contract: positions of the scanners invoked so far
    saPrev,        \* the caller's copy of the previous call's outcome, if kept
    analyzers,     \* TransactionProcessor.analyzers: registered analyzers
    tpPc,          \* process_transaction: "idle", "loop" or "done"
    tpCaller,      \* who awaits process_transaction: "top" or "batch"
    tpTx,          \* process_transaction: the transaction argument
    tpIdx,         \* process_transaction: 1-based position of the loop
    tpCombined,    \* process_transaction: the local `combined_results`
    tpResult,      \* process_transaction: the returned Result
    tpInvoked,     \* process_transaction: positions of the analyzers invoked so far
    tpPrev,        \* the caller's copy of the previous call's outcome, if kept
    bPc,           \* process_batch: "idle", "loop", "await" or "done"
    bTxs,          \* process_batch: the transactions argument
    bIdx,          \* process_batch: 1-based position of the loop
    bResults,      \* process_batch: the local `batch_results`
    bResult,       \* process_batch: the returned Result
    rkIn,          \* calculate_risk_level: the findings argument
    rkOut,         \* calculate_risk_level: the returned level
    ordIn,         \* RiskLevel comparison: the levels compared
    ordOut,        \* RiskLevel comparison: the outcomes of cmp and max
    provider,      \* BlockchainDataProvider: what get_contract returns per address
    icPc,          \* is_contract: "idle", "await" (get_contract pending) or "done"
    icAddr,        \* is_contract: the address argument
    icCalls,       \* is_contract: number of get_contract calls made by this call
    icResult,      \* is_contract: the returned Result
    rtPc,          \* retry_with_backoff: "idle", "call", "sleep" or "done"
    rtMax,         \* retry_with_backoff: the argument max_retries
    rtInitial,     \* retry_with_backoff: the argument initial_delay, in ms
    rtF,           \* retry_with_backoff: whether the n-th invocation of f succeeds
    rtTry,         \* retry_with_backoff: current_try
    rtDelay,       \* retry_with_backoff: current_delay, in ms
    rtCalls,       \* retry_with_backoff: invocations of f so far
    rtSleeps,      \* retry_with_backoff: the sleeps so far
    rtResult,      \* retry_with_backoff: the returned Result
    calls,         \* the calls of each caller of a shared engine: its locals
    mlTx,          \* MLTransactionAnalyzer: the transaction to analyze
    mlOut,         \* MLTransactionAnalyzer: the Result of analyze_transaction
    tcTx,          \* Transaction::total_cost: the fields of self it reads
    tcOut,         \* Transaction::total_cost: how the call ended
    hxIn,          \* hex_to_bytes: the argument
    hxOut,         \* hex_to_bytes: how the call ended
    lgEnv,         \* logging: the RUST_LOG filter of the process, "" when unset
    lgCell,        \* logging: ASYNC_LOGGER, "empty" or "set"
    lgPermit,      \* logging: the task holding the cell's permit, or "free"
    lgTask,        \* logging: per task, where it is and what it asked for
    lgInstalled,   \* logging: the subscribers installed as global default
    lgRuns,        \* logging: the tasks that ran an initialising body
    wtPc,          \* with_timeout: "idle", "pending" or "done"
    wtTimeout,     \* with_timeout: the timeout, in ticks
    wtFuture,      \* with_timeout: the future, by when it is ready and its output
    wtNow,         \* with_timeout: the time since the call, in ticks
    wtResult,      \* with_timeout: the returned Result
    wtAt           \* with_timeout: the time of the return

saVars == <<scanners, saPc, saAddr, saIdx, saFindings, saMeta, saResult,
           saInvoked, saPrev>>
tpVars == <<analyzers, tpPc, tpCaller, tpTx, tpIdx, tpCombined, tpResult,
           tpInvoked, tpPrev>>
bVars  == <<bPc, bTxs, bIdx, bResults, bResult>>
rkVars == <<rkIn, rkOut>>
ordVars == <<ordIn, ordOut>>
icVars == <<provider, icPc, icAddr, icCalls, icResult>>
rtVars == <<rtPc, rtMax, rtInitial, rtF, rtTry, rtDelay, rtCalls, rtSleeps, rtResult>>
mlVars == <<mlTx, mlOut>>
tcVars == <<tcTx, tcOut>>
hxVars == <<hxIn, hxOut>>
lgVars == <<lgEnv, lgCell, lgPermit, lgTask, lgInstalled, lgRuns>>
wtVars == <<wtPc, wtTimeout, wtFuture, wtNow, wtResult, wtAt>>
utilVars == <<mlVars, tcVars, hxVars, lgVars, wtVars>>
extVars == <<rtVars, calls, utilVars>>
restVars == <<ordVars, icVars, extVars>>
vars   == <<saVars, tpVars, bVars, rkVars, restVars>>
\* the variables of the engines, the provider and retry_with_backoff
coreVars == <<saVars, tpVars, bVars, rkVars, ordVars, icVars, rtVars, calls>>
\* what the ML analyzer on its own leaves alone
mlRest == <<coreVars, tcVars, hxVars, lgVars, wtVars>>
\* what total_cost on its own leaves alone
tcRest == <<coreVars, mlVars, hxVars, lgVars, wtVars>>
\* what hex_to_bytes on its own leaves alone
hxRest == <<coreVars, mlVars, tcVars, lgVars, wtVars>>
\* what the logger initialisation leaves alone
lgRest == <<coreVars, mlVars, tcVars, hxVars, wtVars>>
\* what with_timeout leaves alone
wtRest == <<coreVars, mlVars, tcVars, hxVars, lgVars>>

(***************************************************************************)
(* Bounds of the model.                                                    *)
(***************************************************************************)
MaxScanners  == 3
MaxAnalyzers == 2
MaxBatch     == 2
MaxFindings  == 2
\* a call is repeated on engines of at most this many scanners
MaxRepeatScanners == 2
MaxRetries   == 3
\* a shared engine has at most this many plugins
MaxSharedPlugins == 2
\* the strings handed to hex_to_bytes have at most this many characters
MaxHexLen == 4
\* timeouts and completion times of with_timeout go up to this many ticks
MaxTime == 4

(***************************************************************************)
(* Strings.  TLC's strings support Len, \o and SubSeq, which is what       *)
(* str::contains, str::to_lowercase and format! need.                      *)
(***************************************************************************)
\* str::contains(k): k occurs in s as a contiguous substring
Contains(s, k) ==
    \E i \in 1..(Len(s) - Len(k) + 1) : SubSeq(s, i, i + Len(k) - 1) = k

StartsWith(s, p) == Len(p) <= Len(s) /\ SubSeq(s, 1, Len(p)) = p

EndsWith(s, p) == Len(p) <= Len(s) /\ SubSeq(s, Len(s) - Len(p) + 1, Len(s)) = p

\* char::to_lowercase on the ASCII letters
LowerChar(c) ==
    CASE c = "A" -> "a" [] c = "B" -> "b" [] c = "C" -> "c" [] c = "D" -> "d"
      [] c = "E" -> "e" [] c = "F" -> "f" [] c = "G" -> "g" [] c = "H" -> "h"
      [] c = "I" -> "i" [] c = "J" -> "j" [] c = "K" -> "k" [] c = "L" -> "l"
      [] c = "M" -> "m" [] c = "N" -> "n" [] c = "O" -> "o" [] c = "P" -> "p"
      [] c = "Q" -> "q" [] c = "R" -> "r" [] c = "S" -> "s" [] c = "T" -> "t"
      [] c = "U" -> "u" [] c = "V" -> "v" [] c = "W" -> "w" [] c = "X" -> "x"
      [] c = "Y" -> "y" [] c = "Z" -> "z" [] OTHER -> c

RECURSIVE to_lowercase(_)
\* str::to_lowercase: every character lower-cased, in place
to_lowercase(s) ==
    IF Len(s) = 0 THEN ""
    ELSE LowerChar(SubSeq(s, 1, 1)) \o to_lowercase(SubSeq(s, 2, Len(s)))

(***************************************************************************)
(* common: RiskLevel and Error.                                            *)
(***************************************************************************)
RiskLevels == {"None", "Low", "Medium", "High", "Critical"}

RiskRankLowFirst(r) ==
    CASE r = "Low" -> 0 [] r = "None" -> 1 [] r = "Medium" -> 2
      [] r = "High" -> 3 [] r = "Critical" -> 4

\* #[derive(PartialOrd, Ord)]: variants compare by declaration order
RiskRank(r) ==
    CASE r = "None" -> 0 [] r = "Low" -> 1 [] r = "Medium" -> 2
      [] r = "High" -> 3 [] r = "Critical" -> 4

RiskGt(a, b) == RiskRank(a) > RiskRank(b)

\* an Error value: its variant and the String it carries
MkError(kind, msg) == [kind |-> kind, msg |-> msg]

\* a value behind Box<dyn std::error::Error + Send + Sync>: its concrete type
\* (what downcasting compares), the variant or kind of the value, and the
\* String it carries
Boxed(type, variant, msg) == [type |-> type, variant |-> variant, msg |-> msg]

\* Option::None of a downcast
NoPayload == Boxed("", "", "")

\* impl Display for BlockchainError; Box<T> and io::Error display their content
PayloadDisplay(payload) ==
    CASE payload.variant = "ContractNotFound" ->
            "Contract not found at address: " \o payload.msg
      [] payload.variant = "RPCError" -> "RPC error: " \o payload.msg
      [] payload.variant = "ConnectionError" ->
            "Node connection error: " \o payload.msg
      [] OTHER -> payload.msg

\* Error::Other(payload), also what From<Box<dyn Error + Send + Sync>> yields
ErrorOther(payload) == [kind |-> "Other", msg |-> "", payload |-> payload]

\* Error::downcast_ref::<T>(): Some(payload) only for Error::Other holding a T
downcast_ref(e, T) ==
    IF e.kind = "Other" /\ e.payload.type = T THEN e.payload ELSE NoPayload

\* impl Display for Error (thiserror's #[error("...: {0}")] attributes)
ErrorDisplay(e) ==
    CASE e.kind = "Network"    -> "Network error: " \o e.msg
      [] e.kind = "NotFound"   -> "Resource not found: " \o e.msg
      [] e.kind = "Validation" -> "Validation error: " \o e.msg
      [] e.kind = "Analysis"   -> "Analysis error: " \o e.msg
      [] e.kind = "Internal"   -> "Internal error: " \o e.msg
      [] e.kind = "Other"      -> PayloadDisplay(e.payload)

\* Result<T, Error>
NoValue == "no value"
NoError == MkError("none", "")
Ok(v)   == [ok |-> TRUE, value |-> v, err |-> NoError]
Err(e)  == [ok |-> FALSE, value |-> NoValue, err |-> e]

\* Error::analysis(msg)
ErrorAnalysis(msg) == MkError("Analysis", msg)

(***************************************************************************)
(* Maps (HashMap<String, String>) as functions on a finite set of keys.    *)
(***************************************************************************)
EmptyMap == [k \in {} |-> ""]

\* HashMap::insert(k, v)
Insert(m, k, v) == [x \in DOMAIN m \cup {k} |-> IF x = k THEN v ELSE m[x]]

(***************************************************************************)
(* Risk derivation: SecurityAnalyzer::calculate_risk_level.                *)
(***************************************************************************)
critical_keywords == {"critical", "severe", "high risk"}
high_keywords     == {"high", "major", "significant"}
medium_keywords   == {"medium", "moderate"}
low_keywords      == {"low", "minor", "info"}

\* keywords.iter().any(|&k| finding_lower.contains(k))
AnyKeyword(keywords, finding_lower) ==
    \E k \in keywords : Contains(finding_lower, k)

ClassifyHighFirst(finding) ==
    LET finding_lower == to_lowercase(finding) IN
    IF AnyKeyword(high_keywords, finding_lower) THEN "High"
    ELSE IF AnyKeyword(critical_keywords, finding_lower) THEN "Critical"
    ELSE IF AnyKeyword(medium_keywords, finding_lower) THEN "Medium"
    ELSE IF AnyKeyword(low_keywords, finding_lower) THEN "Low"
    ELSE "None"

ClassifyByLabel(finding) ==
    LET finding_lower == to_lowercase(finding) IN
    IF StartsWith(finding_lower, "critical") THEN "Critical"
    ELSE IF StartsWith(finding_lower, "high") THEN "High"
    ELSE IF StartsWith(finding_lower, "medium") THEN "Medium"
    ELSE IF StartsWith(finding_lower, "low") \/ StartsWith(finding_lower, "info") THEN "Low"
    ELSE "None"

\* the per-finding level: the if / else-if chain of the loop body
ClassifyFinding(finding) ==
    LET finding_lower == to_lowercase(finding) IN
    IF AnyKeyword(critical_keywords, finding_lower) THEN "Critical"
    ELSE IF AnyKeyword(high_keywords, finding_lower) THEN "High"
    ELSE IF AnyKeyword(medium_keywords, finding_lower) THEN "Medium"
    ELSE IF AnyKeyword(low_keywords, finding_lower) THEN "Low"
    ELSE "None"

RaiseRiskLastWins(highest_risk, risk_level) == risk_level

\* if risk_level > highest_risk { highest_risk = risk_level; }
RaiseRisk(highest_risk, risk_level) ==
    IF RiskGt(risk_level, highest_risk) THEN risk_level ELSE highest_risk

RECURSIVE RiskFold(_, _, _)
\* the `for finding in findings` loop, from position i with the running maximum
RiskFold(findings, i, highest_risk) ==
    IF i > Len(findings) THEN highest_risk
    ELSE RiskFold(findings, i + 1,
                  RaiseRisk(highest_risk, ClassifyFinding(findings[i])))

calculate_risk_level_first(findings) ==
    IF Len(findings) = 0 THEN "None" ELSE ClassifyFinding(findings[1])

\* calculate_risk_level(&self, findings: &[String]) -> RiskLevel
calculate_risk_level(findings) == RiskFold(findings, 1, "None")

(***************************************************************************)
(* Scanner plugins: implementers of VulnerabilityScanner::scan.  The trait *)
(* is open; the pool holds the three built-in scanners, the scanners of    *)
(* the tests and doc examples, and two implementers that fail.             *)
(***************************************************************************)
ScannerPool ==
    {"ReentrancyScanner", "IntegerOverflowScanner", "AccessControlScanner",
     "MockScanner", "CleanScanner", "EmptyScanner",
     "FailingNetwork", "FailingNotFound"}

Addresses == {"0x123", "0x742d35Cc6634C0532925a3b844Bc454e4438f44e"}

\* utils::current_timestamp(): the wall clock, read whenever it is called
ClockValues == {1700000000, 1700000001}

\* scanner.scan(address).await for each scanner of the pool
ScannerScan(scanner, address) ==
    CASE scanner = "ReentrancyScanner" -> Ok(<<
            "Info: Contract calls external functions after state changes",
            "Low: Consider implementing checks-effects-interactions pattern",
            "Medium: Possible reentrancy vulnerability in fallback function">>)
      [] scanner = "IntegerOverflowScanner" -> Ok(<<
            "Medium: Possible integer overflow in unchecked calculation",
            "Info: Consider using SafeMath library">>)
      [] scanner = "AccessControlScanner" -> Ok(<<
            "High: Missing access control on critical function",
            "Medium: Inconsistent permission checks">>)
      [] scanner = "MockScanner" -> Ok(<<
            "Critical vulnerability found",
            "Low risk issue detected">>)
      [] scanner = "CleanScanner" -> Ok(<<"No vulnerabilities found">>)
      [] scanner = "EmptyScanner" -> Ok(<<>>)
      [] scanner = "EchoScanner" -> Ok(<<"Info: scanned " \o address>>)
      [] scanner = "FailingNetwork" -> Err(MkError("Network", "rpc timeout"))
      [] scanner = "FailingNotFound" ->
            Err(MkError("NotFound", "contract " \o address))

(***************************************************************************)
(* SecurityAnalyzer.                                                       *)
(***************************************************************************)
\* SecurityAnalysis { risk_level, findings, metadata }
SecurityAnalysis(risk_level, findings, metadata) ==
    [risk_level |-> risk_level, findings |-> findings, metadata |-> metadata]

ScanMetadataDistinct(now, scanner_count) ==
    Insert(Insert(EmptyMap, "scan_timestamp", ToString(now)),
           "scanner_count",
           ToString(Cardinality({scanners[i] : i \in 1..Len(scanners)})))

\* the two metadata.insert calls (made before the empty check and again
\* after the loop, on a fresh map)
ScanMetadata(now, scanner_count) ==
    Insert(Insert(EmptyMap, "scan_timestamp", ToString(now)),
           "scanner_count", ToString(scanner_count))

EmptyAnalysisNoMarker(metadata) ==
    Ok(SecurityAnalysis("None", <<>>, metadata))

EmptyAnalysisAsError(metadata) ==
    Err(ErrorAnalysis("No security scanners configured"))

\* the early return taken when self.scanners.is_empty()
EmptyAnalysis(metadata) ==
    Ok(SecurityAnalysis("None", <<"No security scanners configured">>, metadata))

ScannerFailedOneBased(i, e) ==
    ErrorAnalysis("Vulnerability scanner " \o ToString(i + 1)
                  \o " failed: " \o ErrorDisplay(e))

\* Error::analysis(format!("Vulnerability scanner {} failed: {}", i, e)),
\* i being the 0-based index of enumerate()
ScannerFailed(i, e) ==
    ErrorAnalysis("Vulnerability scanner " \o ToString(i)
                  \o " failed: " \o ErrorDisplay(e))

ExtendFindingsPrepend(findings, scanner_findings) == scanner_findings \o findings

\* findings.extend(scanner_findings)
ExtendFindings(findings, scanner_findings) == findings \o scanner_findings

FullAnalysisStamped(findings, metadata) ==
    LET stamped == Append(findings, "Scanned at " \o metadata["scan_timestamp"])
    IN Ok(SecurityAnalysis(calculate_risk_level(stamped), stamped, metadata))

FullAnalysisNoRisk(findings, metadata) ==
    Ok(SecurityAnalysis("None", findings, metadata))

\* the report built after the loop
FullAnalysis(findings, metadata) ==
    Ok(SecurityAnalysis(calculate_risk_level(findings), findings, metadata))

\* no Result: no call has returned
NoResult == Err(NoError)

\* a Result has been returned
HasResult(r) == r.ok \/ r.err # NoError

\* SecurityAnalyzer::new()
InitSA ==
    /\ scanners = <<>>
    /\ saPc = "idle"
    /\ saAddr = ""
    /\ saIdx = 0
    /\ saFindings = <<>>
    /\ saMeta = EmptyMap
    /\ saResult = NoResult
    /\ saInvoked = <<>>
    /\ saPrev = NoResult

register_scanner_front(scanner) ==
    /\ saPc = "idle"
    /\ Len(scanners) < MaxScanners
    /\ scanners' = <<scanner>> \o scanners
    /\ UNCHANGED <<saPc, saAddr, saIdx, saFindings, saMeta, saResult,
                   saInvoked, saPrev>>
    /\ UNCHANGED <<tpVars, bVars, rkVars, restVars>>

\* register_scanner(scanner): needs &mut self, so no call is in progress
register_scanner(scanner) ==
    /\ saPc = "idle"
    /\ Len(scanners) < MaxScanners
    /\ scanners' = Append(scanners, scanner)
    /\ UNCHANGED <<saPc, saAddr, saIdx, saFindings, saMeta, saResult,
                   saInvoked, saPrev>>
    /\ UNCHANGED <<tpVars, bVars, rkVars, restVars>>

\* the body of analyze_contract(address) up to the first scanner.scan(..).await
AnalyzeBegin(address, now) ==
    /\ saAddr' = address
    /\ saMeta' = ScanMetadata(now, Len(scanners))
    /\ saFindings' = <<>>
    /\ saIdx' = 1
    /\ saInvoked' = <<>>
    /\ IF Len(scanners) = 0
       THEN /\ saPc' = "done"
            /\ saResult' = EmptyAnalysis(saMeta')
       ELSE /\ saPc' = "scan"
            /\ saResult' = NoResult
    /\ UNCHANGED scanners

\* a caller awaits analyze_contract(address)
AnalyzeStart(address, now) ==
    /\ saPc = "idle"
    /\ AnalyzeBegin(address, now)
    /\ UNCHANGED saPrev
    /\ UNCHANGED <<tpVars, bVars, rkVars, restVars>>

\* the caller keeps the Result it got and calls again with the same address
AnalyzeRepeat(now) ==
    /\ saPc = "done"
    /\ Len(scanners) <= MaxRepeatScanners
    /\ saPrev' = saResult
    /\ AnalyzeBegin(saAddr, now)
    /\ UNCHANGED <<tpVars, bVars, rkVars, restVars>>

ScanStepKeepsGoing ==
    /\ saPc = "scan"
    /\ saIdx <= Len(scanners)
    /\ saInvoked' = Append(saInvoked, saIdx)
    /\ LET r == ScannerScan(scanners[saIdx], saAddr) IN
       IF r.ok
       THEN /\ saFindings' = ExtendFindings(saFindings, r.value)
            /\ UNCHANGED saResult
       ELSE /\ saResult' = Err(ScannerFailed(saIdx - 1, r.err))
            /\ UNCHANGED saFindings
    /\ saIdx' = saIdx + 1
    /\ UNCHANGED <<scanners, saPc, saAddr, saMeta, saPrev>>
    /\ UNCHANGED <<tpVars, bVars, rkVars, restVars>>

\* one iteration of the loop: the scanner at saIdx is awaited and matched
ScanStep ==
    /\ saPc = "scan"
    /\ saIdx <= Len(scanners)
    /\ saInvoked' = Append(saInvoked, saIdx)
    /\ LET r == ScannerScan(scanners[saIdx], saAddr) IN
       IF r.ok
       THEN /\ saFindings' = ExtendFindings(saFindings, r.value)
            /\ saIdx' = saIdx + 1
            /\ UNCHANGED <<saPc, saResult>>
       ELSE /\ saResult' = Err(ScannerFailed(saIdx - 1, r.err))
            /\ saPc' = "done"
            /\ UNCHANGED <<saFindings, saIdx>>
    /\ UNCHANGED <<scanners, saAddr, saMeta, saPrev>>
    /\ UNCHANGED <<tpVars, bVars, rkVars, restVars>>

\* after the loop: risk level, fresh metadata, Ok(SecurityAnalysis {..})
AnalyzeFinish(now) ==
    /\ saPc = "scan"
    /\ saIdx > Len(scanners)
    /\ saMeta' = ScanMetadata(now, Len(scanners))
    /\ saResult' = FullAnalysis(saFindings, saMeta')
    /\ saPc' = "done"
    /\ UNCHANGED <<scanners, saAddr, saIdx, saFindings, saInvoked, saPrev>>
    /\ UNCHANGED <<tpVars, bVars, rkVars, restVars>>

AnalyzeReturnDrains ==
    /\ saPc = "done"
    /\ saPc' = "idle"
    /\ saAddr' = ""
    /\ saIdx' = 0
    /\ saFindings' = <<>>
    /\ saMeta' = EmptyMap
    /\ saResult' = NoResult
    /\ saInvoked' = <<>>
    /\ saPrev' = NoResult
    /\ scanners' = <<>>
    /\ UNCHANGED <<tpVars, bVars, rkVars, restVars>>

\* the caller has taken the Result; the engine is ready for the next call
AnalyzeReturn ==
    /\ saPc = "done"
    /\ saPc' = "idle"
    /\ saAddr' = ""
    /\ saIdx' = 0
    /\ saFindings' = <<>>
    /\ saMeta' = EmptyMap
    /\ saResult' = NoResult
    /\ saInvoked' = <<>>
    /\ saPrev' = NoResult
    /\ UNCHANGED scanners
    /\ UNCHANGED <<tpVars, bVars, rkVars, restVars>>

(***************************************************************************)
(* Analyzer plugins: implementers of TransactionAnalyzer.  The trait is    *)
(* open; the pool holds MLTransactionAnalyzer, MockAnalyzer instances of   *)
(* the tests, and implementers that return nothing, fail, or use key names *)
(* of their own choosing.                                                  *)
(***************************************************************************)
AnalyzerPool ==
    {"MLTransactionAnalyzer", "GasMock", "SecurityMock", "SecurityMock2",
     "EmptyAnalyzer", "ShadowAnalyzer", "FailingNetwork", "FailingValidation"}

\* Transaction: the fields the analyzers of the pool read
Tx(hash, gas_price) == [hash |-> hash, gas_price |-> gas_price]

Transactions == {Tx("0x123", 50), Tx("0x456", 60), Tx("0x123", 150)}

\* a map of one entry
Single(k, v) == Insert(EmptyMap, k, v)

MLAnalyzeNotAbove(tx) ==
    LET gas_efficiency == IF tx.gas_price >= 100 THEN "inefficient" ELSE "efficient"
    IN Ok(Insert(Insert(Single("gas_efficiency", gas_efficiency),
                        "anomaly_score", "0.0"),
                 "ml_analysis", "placeholder"))

\* MLTransactionAnalyzer::analyze_transaction
MLAnalyze(tx) ==
    LET gas_efficiency == IF tx.gas_price > 100 THEN "inefficient" ELSE "efficient"
    IN Ok(Insert(Insert(Single("gas_efficiency", gas_efficiency),
                        "anomaly_score", "0.0"),
                 "ml_analysis", "placeholder"))

\* analyzer.analyze_transaction(tx).await for each analyzer of the pool
AnalyzerRun(analyzer, tx) ==
    CASE analyzer = "MLTransactionAnalyzer" -> MLAnalyze(tx)
      [] analyzer = "GasMock"        -> Ok(Single("gas_analysis", "efficient"))
      [] analyzer = "SecurityMock"   -> Ok(Single("security", "safe"))
      [] analyzer = "SecurityMock2"  -> Ok(Single("security", "unsafe"))
      [] analyzer = "EmptyAnalyzer"  -> Ok(EmptyMap)
      [] analyzer = "ShadowAnalyzer" ->
            Ok(Insert(Single("analyzer_0_error", "none"),
                      "analyzer_1_error", "none"))
      [] analyzer = "FailingNetwork" -> Err(MkError("Network", "rpc timeout"))
      [] analyzer = "FailingValidation" ->
            Err(MkError("Validation", "bad transaction " \o tx.hash))

(***************************************************************************)
(* TransactionProcessor.                                                   *)
(***************************************************************************)
NoTx == [hash |-> "", gas_price |-> 0]

\* TransactionProcessor::new(); no call in progress
InitTP ==
    /\ analyzers = <<>>
    /\ tpPc = "idle"
    /\ tpCaller = "top"
    /\ tpTx = NoTx
    /\ tpIdx = 0
    /\ tpCombined = EmptyMap
    /\ tpResult = NoResult
    /\ tpInvoked = <<>>
    /\ tpPrev = NoResult

InitBatch ==
    /\ bPc = "idle"
    /\ bTxs = <<>>
    /\ bIdx = 0
    /\ bResults = EmptyMap
    /\ bResult = NoResult

\* impl Display for Hash: the inner string
HashToString(hash) == hash

NoAnalyzersEmptyMap == Ok(EmptyMap)

\* the early return taken when self.analyzers.is_empty()
NoAnalyzersResult == Ok(Single("status", "No analyzers configured"))

\* HashMap::extend(results): every entry of results is inserted
Extend(m, results) ==
    [k \in DOMAIN m \cup DOMAIN results |->
        IF k \in DOMAIN results THEN results[k] ELSE m[k]]

\* format!("analyzer_{}_error", i), i being the 0-based index of enumerate()
ErrorKey(i) == "analyzer_" \o ToString(i) \o "_error"

\* format!("Analysis failed: {}", e)
ErrorValue(e) == "Analysis failed: " \o ErrorDisplay(e)

\* the match on the analyzer's result inside the loop
MatchAnalyzer(combined_results, i, r) ==
    IF r.ok
    THEN Extend(combined_results, r.value)
    ELSE Insert(combined_results, ErrorKey(i), ErrorValue(r.err))

ProcessResultFailsOnError(combined_results) ==
    IF \E k \in DOMAIN combined_results :
          StartsWith(combined_results[k], "Analysis failed:")
    THEN Err(ErrorAnalysis("analyzer failed"))
    ELSE Ok(combined_results)

ProcessResultMarksEmpty(combined_results) ==
    IF DOMAIN combined_results = {}
    THEN Ok(Single("status", "No analyzers configured"))
    ELSE Ok(combined_results)

\* Ok(combined_results), the only return after the loop
ProcessResult(combined_results) == Ok(combined_results)

BatchEntryDropsKeys(r) ==
    IF r.ok THEN EmptyMap
    ELSE Single("error", "Processing failed: " \o ErrorDisplay(r.err))

BatchEntryFlagsFailures(r) ==
    IF r.ok /\ \A k \in DOMAIN r.value : ~StartsWith(r.value[k], "Analysis failed:")
    THEN r.value
    ELSE Single("error", "Processing failed: analyzer failure")

\* the match on process_transaction's result inside process_batch
BatchEntry(r) ==
    IF r.ok THEN r.value
    ELSE Single("error", "Processing failed: " \o ErrorDisplay(r.err))

BatchInsertClears(batch_results, key, entry) == Single(key, entry)

BatchInsertKeepFirst(batch_results, key, entry) ==
    IF key \in DOMAIN batch_results THEN batch_results
    ELSE Insert(batch_results, key, entry)

\* batch_results.insert(tx.hash.to_string(), ..): a present key is overwritten
BatchInsert(batch_results, key, entry) == Insert(batch_results, key, entry)

BatchResultRejectsEmpty(batch_results) ==
    IF DOMAIN batch_results = {}
    THEN Err(MkError("Validation", "empty batch"))
    ELSE Ok(batch_results)

\* Ok(batch_results), the only return of process_batch
BatchResult(batch_results) == Ok(batch_results)

\* register_analyzer(analyzer): needs &mut self, so no call is in progress
register_analyzer(analyzer) ==
    /\ tpPc = "idle" /\ bPc = "idle"
    /\ Len(analyzers) < MaxAnalyzers
    /\ analyzers' = Append(analyzers, analyzer)
    /\ UNCHANGED <<tpPc, tpCaller, tpTx, tpIdx, tpCombined, tpResult,
                   tpInvoked, tpPrev>>
    /\ UNCHANGED <<saVars, bVars, rkVars, restVars>>

\* process_transaction(tx), up to the first analyze_transaction(..).await
ProcessBegin(tx, caller) ==
    /\ tpCaller' = caller
    /\ tpTx' = tx
    /\ tpIdx' = 1
    /\ tpCombined' = EmptyMap
    /\ tpInvoked' = <<>>
    /\ IF Len(analyzers) = 0
       THEN /\ tpPc' = "done"
            /\ tpResult' = NoAnalyzersResult
       ELSE /\ tpPc' = "loop"
            /\ tpResult' = NoResult
    /\ UNCHANGED analyzers

\* a caller of the engine awaits process_transaction(tx)
ProcessStart(tx) ==
    /\ bPc = "idle" /\ tpPc = "idle"
    /\ ProcessBegin(tx, "top")
    /\ UNCHANGED tpPrev
    /\ UNCHANGED <<saVars, bVars, rkVars, restVars>>

\* the caller keeps the Result it got and calls again with the same transaction
ProcessRepeat ==
    /\ bPc = "idle"
    /\ tpPc = "done" /\ tpCaller = "top"
    /\ tpPrev' = tpResult
    /\ ProcessBegin(tpTx, "top")
    /\ UNCHANGED <<saVars, bVars, rkVars, restVars>>

AnalyzerStepAborts ==
    /\ tpPc = "loop"
    /\ tpIdx <= Len(analyzers)
    /\ LET r == AnalyzerRun(analyzers[tpIdx], tpTx) IN
       /\ tpCombined' = MatchAnalyzer(tpCombined, tpIdx - 1, r)
       /\ tpIdx' = IF r.ok THEN tpIdx + 1 ELSE Len(analyzers) + 1
    /\ tpInvoked' = Append(tpInvoked, tpIdx)
    /\ UNCHANGED <<analyzers, tpPc, tpCaller, tpTx, tpResult, tpPrev>>
    /\ UNCHANGED <<saVars, bVars, rkVars, restVars>>

\* one iteration of the loop: the analyzer at tpIdx is awaited and matched
AnalyzerStep ==
    /\ tpPc = "loop"
    /\ tpIdx <= Len(analyzers)
    /\ tpCombined' = MatchAnalyzer(tpCombined, tpIdx - 1,
                                   AnalyzerRun(analyzers[tpIdx], tpTx))
    /\ tpIdx' = tpIdx + 1
    /\ tpInvoked' = Append(tpInvoked, tpIdx)
    /\ UNCHANGED <<analyzers, tpPc, tpCaller, tpTx, tpResult, tpPrev>>
    /\ UNCHANGED <<saVars, bVars, rkVars, restVars>>

\* after the loop: Ok(combined_results)
ProcessFinish ==
    /\ tpPc = "loop"
    /\ tpIdx > Len(analyzers)
    /\ tpResult' = ProcessResult(tpCombined)
    /\ tpPc' = "done"
    /\ UNCHANGED <<analyzers, tpCaller, tpTx, tpIdx, tpCombined, tpInvoked, tpPrev>>
    /\ UNCHANGED <<saVars, bVars, rkVars, restVars>>

\* process_transaction's frame is gone once its Result has been taken
ProcessReset ==
    /\ tpPc' = "idle"
    /\ tpCaller' = "top"
    /\ tpTx' = NoTx
    /\ tpIdx' = 0
    /\ tpCombined' = EmptyMap
    /\ tpResult' = NoResult
    /\ tpInvoked' = <<>>
    /\ tpPrev' = NoResult
    /\ UNCHANGED analyzers

\* the top-level caller has taken the Result
ProcessReturn ==
    /\ tpPc = "done" /\ tpCaller = "top"
    /\ ProcessReset
    /\ UNCHANGED <<saVars, bVars, rkVars, restVars>>

\* process_batch(transactions), up to the loop
BatchStart(transactions) ==
    /\ bPc = "idle" /\ tpPc = "idle"
    /\ bTxs' = transactions
    /\ bIdx' = 1
    /\ bResults' = EmptyMap
    /\ bPc' = "loop"
    /\ UNCHANGED bResult
    /\ UNCHANGED <<saVars, tpVars, rkVars, restVars>>

\* the loop calls self.process_transaction(tx) for the next transaction
BatchCall ==
    /\ bPc = "loop" /\ tpPc = "idle"
    /\ bIdx <= Len(bTxs)
    /\ ProcessBegin(bTxs[bIdx], "batch")
    /\ UNCHANGED tpPrev
    /\ bPc' = "await"
    /\ UNCHANGED <<bTxs, bIdx, bResults, bResult>>
    /\ UNCHANGED <<saVars, rkVars, restVars>>

\* process_transaction has returned to the loop: its entry is inserted under
\* tx.hash.to_string()
BatchCollect ==
    /\ bPc = "await"
    /\ tpPc = "done" /\ tpCaller = "batch"
    /\ bResults' = BatchInsert(bResults, HashToString(bTxs[bIdx].hash),
                                BatchEntry(tpResult))
    /\ bIdx' = bIdx + 1
    /\ bPc' = "loop"
    /\ ProcessReset
    /\ UNCHANGED <<bTxs, bResult>>
    /\ UNCHANGED <<saVars, rkVars, restVars>>

\* after the loop: Ok(batch_results)
BatchFinish ==
    /\ bPc = "loop"
    /\ bIdx > Len(bTxs)
    /\ bResult' = BatchResult(bResults)
    /\ bPc' = "done"
    /\ UNCHANGED <<bTxs, bIdx, bResults>>
    /\ UNCHANGED <<saVars, tpVars, rkVars, restVars>>

\* the caller has taken the batch Result
BatchReturn ==
    /\ bPc = "done"
    /\ bPc' = "idle"
    /\ bTxs' = <<>>
    /\ bIdx' = 0
    /\ bResults' = EmptyMap
    /\ bResult' = NoResult
    /\ UNCHANGED <<saVars, tpVars, rkVars, restVars>>

(***************************************************************************)
(* The risk derivation on its own: any finding sequence as the argument.   *)
(***************************************************************************)
FindingPool ==
    {"Critical vulnerability found",
     "Low risk issue detected",
     "High risk of fund loss",
     "High: Missing access control on critical function",
     "High gas usage",
     "Major design flaw",
     "Medium: Inconsistent permission checks",
     "Info: Consider using SafeMath library",
     "No vulnerabilities found",
     "Low severity, not critical",
     "Slow external call",
     "MODERATE exposure",
     ""}

RECURSIVE SeqsUpTo(_, _)
\* the sequences over S of length at most n
SeqsUpTo(S, n) ==
    IF n = 0 THEN {<<>>}
    ELSE LET shorter == SeqsUpTo(S, n - 1) IN
         shorter \cup {Append(q, x) : q \in shorter, x \in S}

Unset == "unset"

InitRisk ==
    /\ rkIn \in SeqsUpTo(FindingPool, MaxFindings)
    /\ rkOut = Unset

InitRiskIdle ==
    /\ rkIn = <<>>
    /\ rkOut = Unset

\* self.calculate_risk_level(&findings)
CalcRisk ==
    /\ rkOut = Unset
    /\ rkOut' = calculate_risk_level(rkIn)
    /\ UNCHANGED rkIn
    /\ UNCHANGED <<saVars, tpVars, bVars, restVars>>

(***************************************************************************)
(* Specifications.                                                         *)
(***************************************************************************)
(***************************************************************************)
(* BlockchainDataProvider: the provided method is_contract over any        *)
(* implementation of get_contract.                                         *)
(***************************************************************************)
ProviderAddresses == {"0xcontract", "0xnotcontract"}

\* what an implementation of get_contract(address) may return
GetContractOutcomes(address) ==
    {Ok("SmartContract"),
     Err(ErrorOther(Boxed("BlockchainError", "ContractNotFound", address))),
     Err(ErrorOther(Boxed("Box<BlockchainError>", "ContractNotFound", address))),
     Err(ErrorOther(Boxed("BlockchainError", "RPCError", "timeout"))),
     Err(ErrorOther(Boxed("BlockchainError", "ConnectionError", "refused"))),
     Err(ErrorOther(Boxed("std::io::Error", "Other", "io error"))),
     Err(MkError("NotFound", address)),
     Err(MkError("Network", "unreachable"))}

\* the implementations of get_contract: one outcome per address
Providers ==
    {f \in [ProviderAddresses ->
              UNION {GetContractOutcomes(a) : a \in ProviderAddresses}] :
        \A a \in ProviderAddresses : f[a] \in GetContractOutcomes(a)}

\* MockProvider::get_contract: Box::<dyn Error + Send + Sync>::from(Box::new(..))
\* boxes the BlockchainError twice
MockProvider ==
    [a \in ProviderAddresses |->
        IF a = "0xcontract" THEN Ok("SmartContract")
        ELSE Err(ErrorOther(Boxed("Box<BlockchainError>", "ContractNotFound", a)))]

\* a provider and no is_contract call in progress
InitProvider ==
    /\ provider \in Providers
    /\ icPc = "idle"
    /\ icAddr = ""
    /\ icCalls = 0
    /\ icResult = NoResult

InitProviderIdle ==
    /\ provider = MockProvider
    /\ icPc = "idle"
    /\ icAddr = ""
    /\ icCalls = 0
    /\ icResult = NoResult

\* the match on get_contract's result inside is_contract
IsContractMatch(r) ==
    IF r.ok THEN Ok(TRUE)
    ELSE LET blockchain_err == downcast_ref(r.err, "BlockchainError") IN
         IF blockchain_err # NoPayload
         THEN IF blockchain_err.variant = "ContractNotFound"
              THEN Ok(FALSE)
              ELSE Err(r.err)
         ELSE Err(r.err)

\* is_contract(address), up to self.get_contract(address).await
IsContractStart(address) ==
    /\ icPc = "idle"
    /\ icAddr' = address
    /\ icCalls' = 0
    /\ icPc' = "await"
    /\ UNCHANGED <<provider, icResult>>
    /\ UNCHANGED <<saVars, tpVars, bVars, rkVars, ordVars, extVars>>

\* get_contract has returned and its result is matched
IsContractFinish ==
    /\ icPc = "await"
    /\ icCalls' = icCalls + 1
    /\ icResult' = IsContractMatch(provider[icAddr])
    /\ icPc' = "done"
    /\ UNCHANGED <<provider, icAddr>>
    /\ UNCHANGED <<saVars, tpVars, bVars, rkVars, ordVars, extVars>>

\* the caller has taken the Result
IsContractReturn ==
    /\ icPc = "done"
    /\ icPc' = "idle"
    /\ icAddr' = ""
    /\ icCalls' = 0
    /\ icResult' = NoResult
    /\ UNCHANGED provider
    /\ UNCHANGED <<saVars, tpVars, bVars, rkVars, ordVars, extVars>>

(***************************************************************************)
(* RiskLevel comparisons: the derived Ord on any three levels.             *)
(***************************************************************************)
\* Ord::cmp as derived
RiskCmp(a, b) ==
    IF RiskRank(a) < RiskRank(b) THEN "Less"
    ELSE IF RiskRank(a) = RiskRank(b) THEN "Equal"
    ELSE "Greater"

\* Ord::max: the second operand unless the first is greater
RiskMax(a, b) == IF RiskCmp(a, b) = "Greater" THEN a ELSE b

\* nothing compared yet
NoComparisons ==
    [ab |-> Unset, ba |-> Unset, bc |-> Unset, ac |-> Unset, max_ab |-> Unset]

InitOrder ==
    /\ ordIn \in RiskLevels \X RiskLevels \X RiskLevels
    /\ ordOut = NoComparisons

InitOrderIdle ==
    /\ ordIn = <<"None", "None", "None">>
    /\ ordOut = NoComparisons

\* the comparisons among the three levels of ordIn
Compare ==
    /\ ordOut = NoComparisons
    /\ ordOut' = [ab |-> RiskCmp(ordIn[1], ordIn[2]),
                  ba |-> RiskCmp(ordIn[2], ordIn[1]),
                  bc |-> RiskCmp(ordIn[2], ordIn[3]),
                  ac |-> RiskCmp(ordIn[1], ordIn[3]),
                  max_ab |-> RiskMax(ordIn[1], ordIn[2])]
    /\ UNCHANGED ordIn
    /\ UNCHANGED <<saVars, tpVars, bVars, rkVars, icVars, extVars>>

(***************************************************************************)
(* retry_with_backoff(f, max_retries, initial_delay).  f is any closure:   *)
(* its n-th invocation succeeds or fails as rtF[n] says.  Durations are in *)
(* milliseconds.                                                           *)
(***************************************************************************)
Delays == {0, 10, 1000}

\* the behaviours of f over the invocations a call can make
Closures == [1..MaxRetries + 1 -> BOOLEAN]

\* what the n-th invocation of f returns
Invoke(f, n) ==
    IF f[n] THEN Ok("value " \o ToString(n))
    ELSE Err(MkError("Internal", "Temporary error " \o ToString(n)))

RetriesExhaustedEarly(current_try, max_retries) == current_try >= max_retries

\* if current_try > max_retries
RetriesExhausted(current_try, max_retries) == current_try > max_retries

NextDelayConstant(current_delay) == current_delay

\* current_delay *= 2
NextDelay(current_delay) == current_delay * 2

InitRetryIdle ==
    /\ rtPc = "idle"
    /\ rtMax = 0
    /\ rtInitial = 0
    /\ rtF = [n \in 1..MaxRetries + 1 |-> TRUE]
    /\ rtTry = 0
    /\ rtDelay = 0
    /\ rtCalls = 0
    /\ rtSleeps = <<>>
    /\ rtResult = NoResult

\* retry_with_backoff(f, max_retries, initial_delay), up to the loop
RetryStart(f, max_retries, initial_delay) ==
    /\ rtPc = "idle"
    /\ rtF' = f
    /\ rtMax' = max_retries
    /\ rtInitial' = initial_delay
    /\ rtTry' = 0
    /\ rtDelay' = initial_delay
    /\ rtCalls' = 0
    /\ rtSleeps' = <<>>
    /\ rtPc' = "call"
    /\ UNCHANGED rtResult
    /\ UNCHANGED <<saVars, tpVars, bVars, rkVars, ordVars, icVars, calls, utilVars>>

\* f().await and the match on its result, up to the return or the sleep
RetryInvoke ==
    /\ rtPc = "call"
    /\ rtCalls' = rtCalls + 1
    /\ LET r == Invoke(rtF, rtCalls + 1) IN
       IF r.ok
       THEN /\ rtResult' = Ok(r.value)
            /\ rtPc' = "done"
            /\ UNCHANGED rtTry
       ELSE /\ rtTry' = rtTry + 1
            /\ IF RetriesExhausted(rtTry', rtMax)
               THEN /\ rtResult' = Err(r.err)
                    /\ rtPc' = "done"
               ELSE /\ rtPc' = "sleep"
                    /\ UNCHANGED rtResult
    /\ UNCHANGED <<rtMax, rtInitial, rtF, rtDelay, rtSleeps>>
    /\ UNCHANGED <<saVars, tpVars, bVars, rkVars, ordVars, icVars, calls, utilVars>>

\* sleep(current_delay).await, then the delay is doubled
RetrySleep ==
    /\ rtPc = "sleep"
    /\ rtSleeps' = Append(rtSleeps, [after |-> rtCalls, delay |-> rtDelay])
    /\ rtDelay' = NextDelay(rtDelay)
    /\ rtPc' = "call"
    /\ UNCHANGED <<rtMax, rtInitial, rtF, rtTry, rtCalls, rtResult>>
    /\ UNCHANGED <<saVars, tpVars, bVars, rkVars, ordVars, icVars, calls, utilVars>>

\* the caller has taken the Result
RetryReturn ==
    /\ rtPc = "done"
    /\ rtPc' = "idle"
    /\ rtMax' = 0
    /\ rtInitial' = 0
    /\ rtF' = [n \in 1..MaxRetries + 1 |-> TRUE]
    /\ rtTry' = 0
    /\ rtDelay' = 0
    /\ rtCalls' = 0
    /\ rtSleeps' = <<>>
    /\ rtResult' = NoResult
    /\ UNCHANGED <<saVars, tpVars, bVars, rkVars, ordVars, icVars, calls, utilVars>>

NextRetry ==
    \/ \E f \in Closures, max_retries \in 0..MaxRetries, initial_delay \in Delays :
          RetryStart(f, max_retries, initial_delay)
    \/ RetryInvoke
    \/ RetrySleep
    \/ RetryReturn

(***************************************************************************)
(* An engine shared by several callers (AppState holds each engine in an   *)
(* Arc).  The engine is configured before it is shared; every call has its *)
(* own locals, and a plugin invocation begins at one step and completes at *)
(* a later one, or never.                                                  *)
(***************************************************************************)
Callers == {"c1", "c2"}

\* plugins whose future never completes
HangingPlugins == {"HangingScanner", "HangingAnalyzer"}

SharedScannerPool ==
    {"MockScanner", "EchoScanner", "FailingNotFound", "HangingScanner"}

SharedAnalyzerPool ==
    {"MLTransactionAnalyzer", "SecurityMock", "FailingValidation", "HangingAnalyzer"}

SharedTransactions == {Tx("0x123", 50), Tx("0x456", 150), Tx("0x456", 50)}

\* the batches of a caller: empty, one transaction, two distinct ones, and
\* one transaction twice
SharedBatches ==
    {<<>>, <<Tx("0x456", 150)>>, <<Tx("0x123", 50), Tx("0x456", 150)>>,
     <<Tx("0x456", 150), Tx("0x456", 50)>>}

\* a plugin invocation begins or ends: tx is the position of the transaction
\* in the batch (0 outside a batch), plugin the position of the plugin
Event(tx, plugin, ev) == [tx |-> tx, plugin |-> plugin, ev |-> ev]

\* the locals of a caller that has no call in progress
NoCall ==
    [op |-> "none", pc |-> "idle", address |-> "", tx |-> NoTx, idx |-> 0,
     findings |-> <<>>, combined |-> EmptyMap, txs |-> <<>>, bidx |-> 0,
     bresults |-> EmptyMap, result |-> NoResult, log |-> <<>>]

InitCallsIdle == calls = [c \in Callers |-> NoCall]

\* the engine a caller gets: configured with scanners or with analyzers
InitShared ==
    /\ \/ /\ scanners \in SeqsUpTo(SharedScannerPool, MaxSharedPlugins)
          /\ analyzers = <<>>
       \/ /\ scanners = <<>>
          /\ analyzers \in SeqsUpTo(SharedAnalyzerPool, MaxSharedPlugins)
    /\ saPc = "idle"
    /\ saAddr = ""
    /\ saIdx = 0
    /\ saFindings = <<>>
    /\ saMeta = EmptyMap
    /\ saResult = NoResult
    /\ saInvoked = <<>>
    /\ saPrev = NoResult
    /\ tpPc = "idle"
    /\ tpCaller = "top"
    /\ tpTx = NoTx
    /\ tpIdx = 0
    /\ tpCombined = EmptyMap
    /\ tpResult = NoResult
    /\ tpInvoked = <<>>
    /\ tpPrev = NoResult

SharedFindings(c) ==
    LET d == CHOOSE x \in Callers : \A y \in Callers : Len(calls[x].findings) >= Len(calls[y].findings)
    IN calls[d].findings

\* let mut findings = Vec::new(): a local of the call
OwnFindings(c) == calls[c].findings

\* analyze_contract(address) of caller c, up to the first scanner.scan(..)
CallAnalyze(c, address, now) ==
    /\ calls[c].op = "none"
    /\ analyzers = <<>>
    /\ calls' = [calls EXCEPT ![c] =
          IF Len(scanners) = 0
          THEN [NoCall EXCEPT !.op = "analyze", !.pc = "done", !.address = address,
                              !.result = EmptyAnalysis(ScanMetadata(now, Len(scanners)))]
          ELSE [NoCall EXCEPT !.op = "analyze", !.pc = "loop", !.address = address,
                              !.idx = 1]]
    /\ UNCHANGED <<saVars, tpVars, bVars, rkVars, ordVars, icVars, rtVars, utilVars>>

ScanInvokeEager(c) ==
    /\ calls[c].op = "analyze"
    /\ \/ /\ calls[c].pc = "loop"
          /\ calls[c].idx <= Len(scanners)
          /\ calls' = [calls EXCEPT ![c].pc = "await",
                          ![c].log = Append(@, Event(0, calls[c].idx, "start"))]
       \/ /\ calls[c].pc = "await"
          /\ calls[c].idx < Len(scanners)
          /\ calls' = [calls EXCEPT ![c].idx = @ + 1,
                          ![c].log = Append(@, Event(0, calls[c].idx + 1, "start"))]
    /\ UNCHANGED <<saVars, tpVars, bVars, rkVars, ordVars, icVars, rtVars, utilVars>>

\* scanner.scan(address) is called: the future of the scanner at idx is awaited
ScanInvoke(c) ==
    /\ calls[c].op = "analyze"
    /\ calls[c].pc = "loop"
    /\ calls[c].idx <= Len(scanners)
    /\ calls' = [calls EXCEPT ![c].pc = "await",
                    ![c].log = Append(@, Event(0, calls[c].idx, "start"))]
    /\ UNCHANGED <<saVars, tpVars, bVars, rkVars, ordVars, icVars, rtVars, utilVars>>

ScanCompleteTimesOut(c) ==
    /\ calls[c].op = "analyze"
    /\ calls[c].pc = "await"
    /\ LET i == calls[c].idx
           r == IF scanners[i] \in HangingPlugins
                THEN Err(MkError("Network", "timed out"))
                ELSE ScannerScan(scanners[i], calls[c].address)
       IN calls' = [calls EXCEPT ![c] =
             IF r.ok
             THEN [@ EXCEPT !.findings = ExtendFindings(OwnFindings(c), r.value),
                            !.idx = i + 1,
                            !.pc = "loop",
                            !.log = Append(@, Event(0, i, "end"))]
             ELSE [@ EXCEPT !.result = Err(ScannerFailed(i - 1, r.err)),
                            !.pc = "done",
                            !.log = Append(@, Event(0, i, "end"))]]
    /\ UNCHANGED <<saVars, tpVars, bVars, rkVars, ordVars, icVars, rtVars, utilVars>>

\* the awaited scanner completes and its result is matched
ScanComplete(c) ==
    /\ calls[c].op = "analyze"
    /\ calls[c].pc = "await"
    /\ scanners[calls[c].idx] \notin HangingPlugins
    /\ LET i == calls[c].idx
           r == ScannerScan(scanners[i], calls[c].address)
       IN calls' = [calls EXCEPT ![c] =
             IF r.ok
             THEN [@ EXCEPT !.findings = ExtendFindings(OwnFindings(c), r.value),
                            !.idx = i + 1,
                            !.pc = "loop",
                            !.log = Append(@, Event(0, i, "end"))]
             ELSE [@ EXCEPT !.result = Err(ScannerFailed(i - 1, r.err)),
                            !.pc = "done",
                            !.log = Append(@, Event(0, i, "end"))]]
    /\ UNCHANGED <<saVars, tpVars, bVars, rkVars, ordVars, icVars, rtVars, utilVars>>

\* after the loop: Ok(SecurityAnalysis {..})
ScanFinish(c, now) ==
    /\ calls[c].op = "analyze"
    /\ calls[c].pc = "loop"
    /\ calls[c].idx > Len(scanners)
    /\ calls' = [calls EXCEPT ![c].pc = "done",
                    ![c].result = FullAnalysis(calls[c].findings,
                                               ScanMetadata(now, Len(scanners)))]
    /\ UNCHANGED <<saVars, tpVars, bVars, rkVars, ordVars, icVars, rtVars, utilVars>>

\* process_transaction(tx) of caller c, up to the first analyze_transaction(..)
CallProcess(c, tx) ==
    /\ calls[c].op = "none"
    /\ scanners = <<>>
    /\ calls' = [calls EXCEPT ![c] =
          IF Len(analyzers) = 0
          THEN [NoCall EXCEPT !.op = "process", !.pc = "done", !.tx = tx,
                              !.result = NoAnalyzersResult]
          ELSE [NoCall EXCEPT !.op = "process", !.pc = "loop", !.tx = tx, !.idx = 1]]
    /\ UNCHANGED <<saVars, tpVars, bVars, rkVars, ordVars, icVars, rtVars, utilVars>>

\* process_batch(transactions) of caller c, up to the loop
CallBatch(c, transactions) ==
    /\ calls[c].op = "none"
    /\ scanners = <<>>
    /\ calls' = [calls EXCEPT ![c] =
          [NoCall EXCEPT !.op = "batch", !.pc = "next", !.txs = transactions,
                         !.bidx = 1]]
    /\ UNCHANGED <<saVars, tpVars, bVars, rkVars, ordVars, icVars, rtVars, utilVars>>

\* the batch loop: the next transaction is handed to process_transaction, or
\* the loop is over and Ok(batch_results) returned
BatchNext(c) ==
    /\ calls[c].op = "batch"
    /\ calls[c].pc = "next"
    /\ calls' = [calls EXCEPT ![c] =
          IF calls[c].bidx > Len(calls[c].txs)
          THEN [@ EXCEPT !.pc = "done", !.result = BatchResult(calls[c].bresults)]
          ELSE LET tx == calls[c].txs[calls[c].bidx] IN
               IF Len(analyzers) = 0
               THEN [@ EXCEPT !.bresults =
                                  BatchInsert(@, HashToString(tx.hash),
                                              BatchEntry(NoAnalyzersResult)),
                              !.bidx = @ + 1]
               ELSE [@ EXCEPT !.tx = tx, !.idx = 1, !.combined = EmptyMap,
                              !.pc = "loop"]]
    /\ UNCHANGED <<saVars, tpVars, bVars, rkVars, ordVars, icVars, rtVars, utilVars>>

\* analyzer.analyze_transaction(tx) is called: its future is awaited
AnalyzerInvoke(c) ==
    /\ calls[c].op \in {"process", "batch"}
    /\ calls[c].pc = "loop"
    /\ calls[c].idx <= Len(analyzers)
    /\ calls' = [calls EXCEPT ![c].pc = "await",
                    ![c].log = Append(@, Event(calls[c].bidx, calls[c].idx, "start"))]
    /\ UNCHANGED <<saVars, tpVars, bVars, rkVars, ordVars, icVars, rtVars, utilVars>>

\* the awaited analyzer completes and its result is matched
AnalyzerComplete(c) ==
    /\ calls[c].op \in {"process", "batch"}
    /\ calls[c].pc = "await"
    /\ analyzers[calls[c].idx] \notin HangingPlugins
    /\ LET i == calls[c].idx IN
       calls' = [calls EXCEPT
                    ![c].combined = MatchAnalyzer(@, i - 1,
                                        AnalyzerRun(analyzers[i], calls[c].tx)),
                    ![c].idx = i + 1,
                    ![c].pc = "loop",
                    ![c].log = Append(@, Event(calls[c].bidx, i, "end"))]
    /\ UNCHANGED <<saVars, tpVars, bVars, rkVars, ordVars, icVars, rtVars, utilVars>>

\* after the analyzer loop: process_transaction returns Ok(combined_results),
\* to the caller or to the batch loop, which inserts the entry
AnalyzerFinish(c) ==
    /\ calls[c].op \in {"process", "batch"}
    /\ calls[c].pc = "loop"
    /\ calls[c].idx > Len(analyzers)
    /\ calls' = [calls EXCEPT ![c] =
          IF calls[c].op = "process"
          THEN [@ EXCEPT !.pc = "done", !.result = ProcessResult(calls[c].combined)]
          ELSE [@ EXCEPT !.bresults =
                             BatchInsert(@, HashToString(calls[c].tx.hash),
                                         BatchEntry(ProcessResult(calls[c].combined))),
                         !.bidx = @ + 1,
                         !.pc = "next"]]
    /\ UNCHANGED <<saVars, tpVars, bVars, rkVars, ordVars, icVars, rtVars, utilVars>>

\* caller c has taken the Result of its call
CallReturn(c) ==
    /\ calls[c].pc = "done"
    /\ calls' = [calls EXCEPT ![c] = NoCall]
    /\ UNCHANGED <<saVars, tpVars, bVars, rkVars, ordVars, icVars, rtVars, utilVars>>

\* a caller begins a call on the shared engine
CallBegin(c) ==
    \/ \E address \in Addresses, now \in ClockValues : CallAnalyze(c, address, now)
    \/ \E tx \in SharedTransactions : CallProcess(c, tx)
    \/ \E transactions \in SharedBatches : CallBatch(c, transactions)

\* the steps the executor takes for the call of caller c inside the loops
CallStep(c) ==
    \/ ScanInvoke(c)
    \/ ScanComplete(c)
    \/ BatchNext(c)
    \/ AnalyzerInvoke(c)
    \/ AnalyzerComplete(c)
    \/ AnalyzerFinish(c)

\* every step the executor takes for the call of caller c
CallProgress(c) ==
    \/ CallStep(c)
    \/ \E now \in ClockValues : ScanFinish(c, now)

\* the states in which ScanFinish(c, now) can be taken
ScanFinishEnabled(c) ==
    /\ calls[c].op = "analyze"
    /\ calls[c].pc = "loop"
    /\ calls[c].idx > Len(scanners)

\* the callers of a shared engine, interleaved at every await point
NextCalls ==
    \E c \in Callers :
        \/ CallBegin(c)
        \/ CallProgress(c)
        \/ CallReturn(c)

\* one caller
NextOneCall ==
    \/ CallBegin("c1")
    \/ CallProgress("c1")
    \/ CallReturn("c1")

(***************************************************************************)
(* MLTransactionAnalyzer::analyze_transaction on its own: any transaction  *)
(* as the argument.                                                        *)
(***************************************************************************)
\* gas_price is a u64: values around the threshold of 100 and the extremes
\* the checker's integers can hold
GasPrices == {0, 50, 150, 2147483647} \cup (95..105)

MLTransactions == {Tx(h, g) : h \in {"", "0x123", "0x456", "0xabc"}, g \in GasPrices}

InitML ==
    /\ mlTx \in MLTransactions
    /\ mlOut = NoResult

InitMLIdle ==
    /\ mlTx = NoTx
    /\ mlOut = NoResult

(***************************************************************************)
(* Transaction::total_cost on its own.  value, gas_price and gas_limit are *)
(* u64; the model keeps the arithmetic of an unsigned word and scales its  *)
(* width down to WordBits bits, so that every operand can be enumerated.   *)
(***************************************************************************)
\* the width of the unsigned word standing for u64
WordBits == 3

\* 2^WordBits: the number of values of the word
WordSize == 2 ^ WordBits

Words == 0..(WordSize - 1)

\* no call has ended
NoCost == [kind |-> "unset", value |-> 0]

\* the call returned n
Returned(n) == [kind |-> "value", value |-> n]

\* the call aborted: "attempt to add with overflow" or "attempt to multiply
\* with overflow", in a build with overflow checks
Panicked == [kind |-> "panic", value |-> 0]

\* a + b and a * b of two words in a build without overflow checks
WrappingAdd(a, b) == (a + b) % WordSize
WrappingMul(a, b) == (a * b) % WordSize

\* self.value + (self.gas_price * self.gas_limit): what the builds of the crate
\* can do.  With overflow checks (debug profile) an overflowing `*` or `+`
\* panics; without them (release profile) it wraps.
TotalCostOutcomes(tx) ==
    LET product == tx.gas_price * tx.gas_limit
        wrapped == WrappingMul(tx.gas_price, tx.gas_limit)
    IN IF product < WordSize /\ tx.value + product < WordSize
       THEN {Returned(tx.value + product)}
       ELSE {Panicked, Returned(WrappingAdd(tx.value, wrapped))}

InitCost ==
    /\ tcTx \in [value : Words, gas_price : Words, gas_limit : Words]
    /\ tcOut = NoCost

InitCostIdle ==
    /\ tcTx = [value |-> 0, gas_price |-> 0, gas_limit |-> 0]
    /\ tcOut = NoCost

\* tx.total_cost()
TotalCost ==
    /\ tcOut = NoCost
    /\ tcOut' \in TotalCostOutcomes(tcTx)
    /\ UNCHANGED tcTx
    /\ UNCHANGED tcRest

(***************************************************************************)
(* hex_to_bytes and bytes_to_hex.                                          *)
(***************************************************************************)
\* the characters of the arguments: hex digits of both cases, the letters of
\* the prefix, a letter that is no digit and the sign from_str_radix accepts
HexAlphabet == {"0", "x", "1", "a", "F", "Z", "+"}

RECURSIVE StringsUpTo(_)
\* the strings over HexAlphabet of at most n characters
StringsUpTo(n) ==
    IF n = 0 THEN {""}
    ELSE LET shorter == StringsUpTo(n - 1)
         IN shorter \cup {s \o c : s \in shorter, c \in HexAlphabet}

HexDigits == "0123456789abcdef"

\* char::to_digit(16): digits of both cases
IsHexDigit(c) == \E d \in 0..15 : SubSeq(HexDigits, d + 1, d + 1) = LowerChar(c)

ToDigit(c) == CHOOSE d \in 0..15 : SubSeq(HexDigits, d + 1, d + 1) = LowerChar(c)

RECURSIVE trim_start_matches(_, _)
\* str::trim_start_matches(pat): every repetition of pat at the start goes
trim_start_matches(s, pat) ==
    IF StartsWith(s, pat)
    THEN trim_start_matches(SubSeq(s, Len(pat) + 1, Len(s)), pat)
    ELSE s

\* no call has ended
NoHex == [kind |-> "unset", bytes |-> <<>>, msg |-> ""]

HexOk(bytes) == [kind |-> "ok", bytes |-> bytes, msg |-> ""]

HexErr(msg) == [kind |-> "err", bytes |-> <<>>, msg |-> msg]

\* the slice &hex[i..i + 2] is out of range: the thread panics
HexPanic == [kind |-> "panic", bytes |-> <<>>, msg |-> "byte index out of range"]

\* u8::from_str_radix(src, 16) of a slice of two characters: one leading "+"
\* is skipped, every other character has to be a digit
from_str_radix(src) ==
    LET c1 == SubSeq(src, 1, 1)
        c2 == SubSeq(src, 2, 2)
    IN IF c1 = "+"
       THEN IF IsHexDigit(c2) THEN HexOk(<<ToDigit(c2)>>)
            ELSE HexErr("invalid digit found in string")
       ELSE IF IsHexDigit(c1) /\ IsHexDigit(c2)
            THEN HexOk(<<16 * ToDigit(c1) + ToDigit(c2)>>)
            ELSE HexErr("invalid digit found in string")

RECURSIVE HexChunks(_, _, _)
\* (0..hex.len()).step_by(2).map(..).collect(): the slices are taken one after
\* the other from the 1-based position i, the first Err ends the collection
HexChunks(hex, i, bytes) ==
    IF i > Len(hex) THEN HexOk(bytes)
    ELSE IF i + 1 > Len(hex) THEN HexPanic
    ELSE LET r == from_str_radix(SubSeq(hex, i, i + 1)) IN
         IF r.kind = "ok" THEN HexChunks(hex, i + 2, bytes \o r.bytes)
         ELSE HexErr("Invalid hex string: " \o r.msg)

\* hex_to_bytes(hex: &str) -> Result<Vec<u8>, String>
hex_to_bytes(hex) == HexChunks(trim_start_matches(hex, "0x"), 1, <<>>)

RECURSIVE encode(_)
\* hex::encode: two lower-case digits per byte
encode(bytes) ==
    IF Len(bytes) = 0 THEN ""
    ELSE LET hi == bytes[1] \div 16
             lo == bytes[1] % 16
         IN SubSeq(HexDigits, hi + 1, hi + 1) \o SubSeq(HexDigits, lo + 1, lo + 1)
            \o encode(Tail(bytes))

\* bytes_to_hex(bytes: &[u8]) -> String
bytes_to_hex(bytes) == "0x" \o encode(bytes)

InitHex ==
    /\ hxIn \in StringsUpTo(MaxHexLen)
    /\ hxOut = NoHex

InitHexIdle ==
    /\ hxIn = ""
    /\ hxOut = NoHex

\* hex_to_bytes(hxIn)
HexToBytes ==
    /\ hxOut = NoHex
    /\ hxOut' = hex_to_bytes(hxIn)
    /\ UNCHANGED hxIn
    /\ UNCHANGED hxRest

(***************************************************************************)
(* Logger initialisation: init_logger, init_logger_with_level and          *)
(* init_json_logger share the static ASYNC_LOGGER, a tokio OnceCell.       *)
(* get_or_init returns at once when the cell is set; otherwise it waits    *)
(* for the cell's one permit, runs the initialising future and sets the    *)
(* cell, which closes the semaphore and lets every waiter return.          *)
(***************************************************************************)
LogTasks == {"t1", "t2", "t3"}

\* the calls a task can make: the function and the level it passes
LogRequests ==
    {[fn |-> "init_logger", json |-> FALSE, filter |-> "common=INFO"],
     [fn |-> "init_logger_with_level", json |-> FALSE, filter |-> "common=DEBUG"],
     [fn |-> "init_logger_with_level", json |-> FALSE, filter |-> "common=WARN"],
     [fn |-> "init_json_logger", json |-> TRUE, filter |-> "info"]}

NoRequest == [fn |-> "", json |-> FALSE, filter |-> ""]

Task(pc, request) == [pc |-> pc, request |-> request]

\* EnvFilter::try_from_default_env().unwrap_or_else(|_| EnvFilter::new(..))
EnvFilterOf(request) == IF lgEnv # "" THEN lgEnv ELSE request.filter

\* the subscriber the body of a request builds
Subscriber(request) == [json |-> request.json, filter |-> EnvFilterOf(request)]

InitLogger ==
    /\ lgEnv \in {"", "debug"}
    /\ lgCell = "empty"
    /\ lgPermit = "free"
    /\ lgTask = [t \in LogTasks |-> Task("idle", NoRequest)]
    /\ lgInstalled = <<>>
    /\ lgRuns = <<>>

InitLoggerIdle ==
    /\ lgEnv = ""
    /\ lgCell = "empty"
    /\ lgPermit = "free"
    /\ lgTask = [t \in LogTasks |-> Task("idle", NoRequest)]
    /\ lgInstalled = <<>>
    /\ lgRuns = <<>>

\* OnceCell::initialized()
initialized == lgCell = "set"

\* the cell's semaphore is closed by set_value
SemaphoreClosed == lgCell = "set"

\* a task calls one of the three functions: get_or_init looks at the cell and
\* returns when it is set, else goes for the permit
LoggerCall(t, request) ==
    /\ lgTask[t].pc = "idle"
    /\ lgTask' = [lgTask EXCEPT ![t] =
                     Task(IF initialized THEN "returned" ELSE "acquire", request)]
    /\ UNCHANGED <<lgEnv, lgCell, lgPermit, lgInstalled, lgRuns>>
    /\ UNCHANGED lgRest

\* semaphore.acquire().await yields the permit
LoggerAcquire(t) ==
    /\ lgTask[t].pc = "acquire"
    /\ ~SemaphoreClosed
    /\ lgPermit = "free"
    /\ lgPermit' = t
    /\ lgTask' = [lgTask EXCEPT ![t].pc = "body"]
    /\ UNCHANGED <<lgEnv, lgCell, lgInstalled, lgRuns>>
    /\ UNCHANGED lgRest

\* semaphore.acquire().await fails because the semaphore is closed: the cell
\* is set and get_or_init returns
LoggerClosed(t) ==
    /\ lgTask[t].pc = "acquire"
    /\ SemaphoreClosed
    /\ lgTask' = [lgTask EXCEPT ![t].pc = "returned"]
    /\ UNCHANGED <<lgEnv, lgCell, lgPermit, lgInstalled, lgRuns>>
    /\ UNCHANGED lgRest

\* the initialising future runs: the subscriber is built and .init() installs
\* it as the global default; .init() panics when one is installed already, and
\* the unwinding task gives the permit back
LoggerBody(t) ==
    /\ lgTask[t].pc = "body"
    /\ lgRuns' = Append(lgRuns, t)
    /\ IF Len(lgInstalled) = 0
       THEN /\ lgInstalled' = Append(lgInstalled, Subscriber(lgTask[t].request))
            /\ lgTask' = [lgTask EXCEPT ![t].pc = "set"]
            /\ UNCHANGED lgPermit
       ELSE /\ lgTask' = [lgTask EXCEPT ![t].pc = "panicked"]
            /\ lgPermit' = "free"
            /\ UNCHANGED lgInstalled
    /\ UNCHANGED <<lgEnv, lgCell>>
    /\ UNCHANGED lgRest

LoggerSetForgets(t) ==
    /\ lgTask[t].pc = "set"
    /\ lgPermit' = "free"
    /\ lgTask' = [lgTask EXCEPT ![t].pc = "returned"]
    /\ UNCHANGED <<lgEnv, lgCell, lgInstalled, lgRuns>>
    /\ UNCHANGED lgRest

\* set_value: the cell is set and the semaphore closed (the permit is
\* forgotten, never given back), and get_or_init returns
LoggerSet(t) ==
    /\ lgTask[t].pc = "set"
    /\ lgCell' = "set"
    /\ lgTask' = [lgTask EXCEPT ![t].pc = "returned"]
    /\ UNCHANGED <<lgEnv, lgPermit, lgInstalled, lgRuns>>
    /\ UNCHANGED lgRest

\* the task goes on after the call; it may call again
LoggerReturn(t) ==
    /\ lgTask[t].pc = "returned"
    /\ lgTask' = [lgTask EXCEPT ![t] = Task("idle", NoRequest)]
    /\ UNCHANGED <<lgEnv, lgCell, lgPermit, lgInstalled, lgRuns>>
    /\ UNCHANGED lgRest

NextLogger ==
    \E t \in LogTasks :
        \/ \E request \in LogRequests : LoggerCall(t, request)
        \/ LoggerAcquire(t)
        \/ LoggerClosed(t)
        \/ LoggerBody(t)
        \/ LoggerSet(t)
        \/ LoggerReturn(t)

(***************************************************************************)
(* with_timeout: tokio::time::timeout(timeout, future).await with the      *)
(* Elapsed error mapped to Error::Internal.  Time is counted in ticks from *)
(* the call; a future is given by the time at which a poll finds it ready  *)
(* (Never for one that stays pending) and by its output.                   *)
(***************************************************************************)
Never == -1

Durations == 0..MaxTime

Futures == [ready_at : Durations \cup {Never}, output : {7, 42}]

NoFuture == [ready_at |-> Never, output |-> 0]

\* a poll of the future at time now finds it ready
FutureReady(future, now) == future.ready_at # Never /\ future.ready_at <= now

\* .map_err(|_| Error::Internal("Operation timed out".to_string()))
TimedOut == Err(MkError("Internal", "Operation timed out"))

TimeoutPollDelayFirst(timeout, future, now) ==
    IF now >= timeout THEN TimedOut
    ELSE IF FutureReady(future, now) THEN Ok(future.output)
    ELSE NoResult

\* Timeout::poll: the future is polled first and its output returned when it
\* is ready; only then the delay is polled, and Elapsed returned when the
\* deadline has passed; else the call stays pending
TimeoutPoll(timeout, future, now) ==
    IF FutureReady(future, now) THEN Ok(future.output)
    ELSE IF now >= timeout THEN TimedOut
    ELSE NoResult

InitTimeoutIdle ==
    /\ wtPc = "idle"
    /\ wtTimeout = 0
    /\ wtFuture = NoFuture
    /\ wtNow = 0
    /\ wtResult = NoResult
    /\ wtAt = 0

\* with_timeout(timeout, future).await, up to the first poll
WithTimeoutCall(timeout, future) ==
    /\ wtPc = "idle"
    /\ wtTimeout' = timeout
    /\ wtFuture' = future
    /\ wtNow' = 0
    /\ wtAt' = 0
    /\ wtResult' = TimeoutPoll(timeout, future, 0)
    /\ wtPc' = IF HasResult(wtResult') THEN "done" ELSE "pending"
    /\ UNCHANGED wtRest

\* a tick of the clock; the task is woken and polled when the timer of the
\* future or that of the timeout fires
WithTimeoutTick ==
    /\ wtPc = "pending"
    /\ wtNow' = wtNow + 1
    /\ wtResult' = IF wtNow' \in {wtTimeout, wtFuture.ready_at}
                   THEN TimeoutPoll(wtTimeout, wtFuture, wtNow')
                   ELSE NoResult
    /\ wtPc' = IF HasResult(wtResult') THEN "done" ELSE "pending"
    /\ wtAt' = wtNow'
    /\ UNCHANGED <<wtTimeout, wtFuture>>
    /\ UNCHANGED wtRest

\* the caller has taken the Result
WithTimeoutReturn ==
    /\ wtPc = "done"
    /\ wtPc' = "idle"
    /\ wtTimeout' = 0
    /\ wtFuture' = NoFuture
    /\ wtNow' = 0
    /\ wtResult' = NoResult
    /\ wtAt' = 0
    /\ UNCHANGED wtRest

NextTimeout ==
    \/ \E timeout \in Durations, future \in Futures : WithTimeoutCall(timeout, future)
    \/ WithTimeoutTick
    \/ WithTimeoutReturn

\* every utility not called
InitUtilIdle ==
    InitMLIdle /\ InitCostIdle /\ InitHexIdle /\ InitLoggerIdle /\ InitTimeoutIdle

\* the engines, the provider and retry_with_backoff untouched
InitCoreIdle ==
    InitSA /\ InitTP /\ InitBatch /\ InitRiskIdle /\ InitOrderIdle /\ InitProviderIdle
    /\ InitRetryIdle /\ InitCallsIdle

\* analyzer.analyze_transaction(&tx).await
AnalyzeTransaction ==
    /\ ~HasResult(mlOut)
    /\ mlOut' = MLAnalyze(mlTx)
    /\ UNCHANGED mlTx
    /\ UNCHANGED mlRest

NextSA ==
    \/ \E scanner \in ScannerPool : register_scanner(scanner)
    \/ \E address \in Addresses, now \in ClockValues : AnalyzeStart(address, now)
    \/ ScanStep
    \/ \E now \in ClockValues : AnalyzeFinish(now)
    \/ AnalyzeReturn

NextTP ==
    \/ \E analyzer \in AnalyzerPool : register_analyzer(analyzer)
    \/ \E tx \in Transactions : ProcessStart(tx)
    \/ AnalyzerStep
    \/ ProcessFinish
    \/ ProcessReturn
    \/ \E transactions \in SeqsUpTo(Transactions, MaxBatch) : BatchStart(transactions)
    \/ BatchCall
    \/ BatchCollect
    \/ BatchFinish
    \/ BatchReturn

\* both engines freshly constructed, nothing registered, no call in progress
Init ==
    InitSA /\ InitTP /\ InitBatch /\ InitRiskIdle /\ InitOrderIdle /\ InitProviderIdle
    /\ InitRetryIdle /\ InitCallsIdle /\ InitUtilIdle

\* the engines freshly constructed and any finding sequence to derive from
InitRiskInputs ==
    InitSA /\ InitTP /\ InitBatch /\ InitRisk /\ InitOrderIdle /\ InitProviderIdle
    /\ InitRetryIdle /\ InitCallsIdle /\ InitUtilIdle

\* the engines freshly constructed and any provider to ask
InitProviders ==
    InitSA /\ InitTP /\ InitBatch /\ InitRiskIdle /\ InitOrderIdle /\ InitProvider
    /\ InitRetryIdle /\ InitCallsIdle /\ InitUtilIdle

\* the engines freshly constructed and any three levels to compare
InitOrderInputs ==
    InitSA /\ InitTP /\ InitBatch /\ InitRiskIdle /\ InitOrder /\ InitProviderIdle
    /\ InitRetryIdle /\ InitCallsIdle /\ InitUtilIdle

\* an engine nobody has registered a plugin with or called
SAUntouched == scanners = <<>> /\ saPc = "idle"
TPUntouched == analyzers = <<>> /\ tpPc = "idle" /\ bPc = "idle"

\* a caller that works with one of the engines and may repeat its calls
NextEngines ==
    \/ TPUntouched /\ NextSA
    \/ TPUntouched /\ \E now \in ClockValues : AnalyzeRepeat(now)
    \/ SAUntouched /\ NextTP
    \/ SAUntouched /\ ProcessRepeat

NextProvider ==
    \/ \E address \in ProviderAddresses : IsContractStart(address)
    \/ IsContractFinish
    \/ IsContractReturn

\* the security analyzer alone
SpecSA == Init /\ [][NextSA]_vars

\* the transaction processor alone
SpecTP == Init /\ [][NextTP]_vars

\* the risk derivation alone
SpecRisk == InitRiskInputs /\ [][CalcRisk]_vars

\* either engine, with repeated calls
SpecEngines == Init /\ [][NextEngines]_vars

\* is_contract over every provider
SpecProvider == InitProviders /\ [][NextProvider]_vars

\* the order on RiskLevel alone
SpecOrder == InitOrderInputs /\ [][Compare]_vars

\* any transaction handed to the ML analyzer
InitMLInputs == InitCoreIdle /\ InitML /\ InitCostIdle /\ InitHexIdle /\ InitLoggerIdle
    /\ InitTimeoutIdle

\* any transaction asked for its total cost
InitCostInputs == InitCoreIdle /\ InitMLIdle /\ InitCost /\ InitHexIdle /\ InitLoggerIdle
    /\ InitTimeoutIdle

\* any string handed to hex_to_bytes
InitHexInputs == InitCoreIdle /\ InitMLIdle /\ InitCostIdle /\ InitHex /\ InitLoggerIdle
    /\ InitTimeoutIdle

\* a process in which no logger has been initialised, with any RUST_LOG
InitLoggerProcess == InitCoreIdle /\ InitMLIdle /\ InitCostIdle /\ InitHexIdle /\ InitLogger
    /\ InitTimeoutIdle

\* the logger initialisation alone
SpecLogger == InitLoggerProcess /\ [][NextLogger]_vars

\* hex_to_bytes alone
SpecHex == InitHexInputs /\ [][HexToBytes]_vars

\* Transaction::total_cost alone
SpecCost == InitCostInputs /\ [][TotalCost]_vars

\* MLTransactionAnalyzer::analyze_transaction alone
SpecML == InitMLInputs /\ [][AnalyzeTransaction]_vars

\* with_timeout alone
SpecTimeout == Init /\ [][NextTimeout]_vars

\* retry_with_backoff alone
SpecRetry == Init /\ [][NextRetry]_vars

\* a configured engine and nothing else in progress
InitSharedEngine ==
    /\ InitShared /\ InitBatch /\ InitRiskIdle /\ InitOrderIdle /\ InitProviderIdle
    /\ InitRetryIdle /\ InitCallsIdle /\ InitUtilIdle

\* concurrent callers of a configured engine
SpecCalls == InitSharedEngine /\ [][NextCalls]_vars

\* one caller of a configured engine; the executor keeps polling a call that
\* can take a step: weak fairness of CallProgress, that of ScanFinish written
\* with its enabling condition (a ScanFinish step always leaves it)
SpecOneCall ==
    /\ InitSharedEngine
    /\ [][NextOneCall]_vars
    /\ WF_vars(CallStep("c1"))
    /\ []<>(~ScanFinishEnabled("c1"))

(***************************************************************************)
(* Properties of the security analyzer and of the risk derivation.         *)
(***************************************************************************)
\* what the scanner registered at position i returns for the current address
ScanOf(i) == ScannerScan(scanners[i], saAddr)

FailingScanners == {i \in 1..Len(scanners) : ~ScanOf(i).ok}

\* position of the first failing scanner (FailingScanners is not empty)
FirstFailing == CHOOSE i \in FailingScanners : \A j \in FailingScanners : i <= j

RECURSIVE ConcatScans(_)
\* the findings of scanners 1..n, one scanner after the other
ConcatScans(n) ==
    IF n = 0 THEN <<>> ELSE ConcatScans(n - 1) \o ScanOf(n).value

\* C1: when some registered scanner fails, analyze_contract returns an
\* Analysis error whose message names the 0-based index of the first failing
\* scanner and contains that scanner's error text, and returns no
\* SecurityAnalysis at all.
C1_FailFastError ==
    (saPc = "done" /\ FailingScanners # {}) =>
        /\ ~saResult.ok
        /\ saResult.value = NoValue
        /\ saResult.err.kind = "Analysis"
        /\ StartsWith(saResult.err.msg,
               "Vulnerability scanner " \o ToString(FirstFailing - 1) \o " failed")
        /\ EndsWith(saResult.err.msg, ErrorDisplay(ScanOf(FirstFailing).err))

\* the second of three scanners fails, the first has findings, and a later
\* scanner fails with another error
C1_Witness ==
    /\ saPc = "done"
    /\ Len(scanners) = 3
    /\ ScanOf(1).ok /\ Len(ScanOf(1).value) > 0
    /\ FailingScanners = {2, 3}
    /\ ScanOf(2).err # ScanOf(3).err
    /\ ~saResult.ok

\* C4: when every scanner succeeds, the report's findings are the scanners'
\* finding sequences concatenated in registration order, nothing dropped,
\* duplicated or added.
C4_FindingsConcatenated ==
    (saPc = "done" /\ Len(scanners) > 0 /\ FailingScanners = {}) =>
        /\ saResult.ok
        /\ saResult.value.findings = ConcatScans(Len(scanners))

\* three succeeding scanners with different, non-empty findings have reported
C4_Witness ==
    /\ saPc = "done"
    /\ Len(scanners) = 3
    /\ FailingScanners = {}
    /\ \A i \in 1..3 : Len(ScanOf(i).value) > 0
    /\ ScanOf(1).value # ScanOf(2).value
    /\ ScanOf(2).value # ScanOf(3).value
    /\ saResult.ok
    /\ Len(saResult.value.findings) >= 6

\* the per-finding levels of a finding sequence
LevelsOf(findings) == {ClassifyFinding(findings[i]) : i \in 1..Len(findings)}

\* the greatest level of a set of levels, None for the empty set
MaxLevel(levels) ==
    IF levels = {} THEN "None"
    ELSE CHOOSE m \in levels : \A l \in levels : RiskRank(l) <= RiskRank(m)

\* C5: the derived risk level is the maximum of the per-finding levels under
\* None < Low < Medium < High < Critical; an empty sequence and a sequence
\* without any keyword yield None.
C5_RiskIsMaximum ==
    (rkOut # Unset) =>
        /\ rkOut = MaxLevel(LevelsOf(rkIn))
        /\ (rkIn = <<>>) => (rkOut = "None")
        /\ (\A i \in 1..Len(rkIn) : ClassifyFinding(rkIn[i]) = "None")
               => (rkOut = "None")

\* a more severe finding precedes a less severe one and the maximum is kept
C5_Witness ==
    /\ rkOut # Unset
    /\ Len(rkIn) = 2
    /\ RiskGt(ClassifyFinding(rkIn[1]), ClassifyFinding(rkIn[2]))
    /\ RiskGt(ClassifyFinding(rkIn[2]), "None")
    /\ rkOut = ClassifyFinding(rkIn[1])

\* the level a keyword set stands for
KeywordSets ==
    {<<"Critical", critical_keywords>>, <<"High", high_keywords>>,
     <<"Medium", medium_keywords>>, <<"Low", low_keywords>>}

\* the levels whose keyword set has a member occurring in the lower-cased finding
MatchedLevels(finding) ==
    {ks[1] : ks \in {x \in KeywordSets :
                        \E k \in x[2] : Contains(to_lowercase(finding), k)}}

\* C6: a finding maps to the most severe keyword set of which its lower-cased
\* text contains a member, and to None when it contains no keyword; "low"
\* together with "critical" gives Critical, and "high risk" gives Critical.
C6_PerFindingLevel ==
    (rkOut # Unset /\ Len(rkIn) = 1) =>
        LET f == rkIn[1] IN
        /\ rkOut = MaxLevel(MatchedLevels(f))
        /\ (f = "Low severity, not critical") => (rkOut = "Critical")
        /\ (f = "High risk of fund loss") => (rkOut = "Critical")
        /\ (f = "High gas usage") => (rkOut = "High")
        /\ (f = "MODERATE exposure") => (rkOut = "Medium")
        /\ (f = "Slow external call") => (rkOut = "Low")
        /\ (f = "No vulnerabilities found") => (rkOut = "None")

\* a single finding holding "high risk" has been classified
C6_Witness ==
    /\ rkOut # Unset
    /\ rkIn = <<"High risk of fund loss">>
    /\ MatchedLevels(rkIn[1]) = {"Critical", "High"}

\* C7: with no scanner registered analyze_contract succeeds with risk level
\* None, the single finding "No security scanners configured" and metadata
\* holding scan_timestamp and scanner_count = "0".
C7_NoScanners ==
    (saPc = "done" /\ Len(scanners) = 0) =>
        /\ saResult.ok
        /\ saResult.value.risk_level = "None"
        /\ saResult.value.findings = <<"No security scanners configured">>
        /\ "scan_timestamp" \in DOMAIN saResult.value.metadata
        /\ "scanner_count" \in DOMAIN saResult.value.metadata
        /\ saResult.value.metadata["scanner_count"] = "0"

\* analyze_contract has returned on an engine without scanners
C7_Witness ==
    /\ saPc = "done"
    /\ Len(scanners) = 0
    /\ saResult.ok

(***************************************************************************)
(* Properties of the transaction processor.                                *)
(***************************************************************************)
\* what the analyzer registered at position i returns for the transaction
RunOf(i) == AnalyzerRun(analyzers[i], tpTx)

FailingAnalyzers == {i \in 1..Len(analyzers) : ~RunOf(i).ok}

\* C2: process_transaction never returns an error, whichever analyzers are
\* registered and whichever of them fail; it returns Ok with a result map.
C2_ProcessNeverFails ==
    (tpPc = "done") =>
        /\ tpResult.ok
        /\ tpResult.err = NoError
        /\ IsFiniteSet(DOMAIN tpResult.value)

\* process_transaction has returned although every registered analyzer failed
C2_Witness ==
    /\ tpPc = "done"
    /\ Len(analyzers) = 2
    /\ FailingAnalyzers = {1, 2}
    /\ tpResult.ok

\* C3: for every registered analyzer at index i that fails, the returned map
\* holds "analyzer_<i>_error" with a value starting "Analysis failed:" and
\* followed by that analyzer's error message, whatever the other analyzers
\* return.
C3_FailureRecorded ==
    (tpPc = "done") =>
        \A i \in FailingAnalyzers :
            /\ ErrorKey(i - 1) \in DOMAIN tpResult.value
            /\ StartsWith(tpResult.value[ErrorKey(i - 1)], "Analysis failed:")
            /\ EndsWith(tpResult.value[ErrorKey(i - 1)], ErrorDisplay(RunOf(i).err))

\* the analyzers that emitted key k: they succeeded and k is in their map
Emitters(k) ==
    {i \in 1..Len(analyzers) : RunOf(i).ok /\ k \in DOMAIN RunOf(i).value}

\* the last of a non-empty set of positions
Last(positions) == CHOOSE i \in positions : \A j \in positions : j <= i

\* C8: for every key, the value in the returned map is the value written by
\* the last analyzer in registration order that emitted that key; a key
\* emitted by one analyzer only appears with its value unmodified.
C8_LastEmitterWins ==
    (tpPc = "done" /\ Len(analyzers) > 0) =>
        \A i \in 1..Len(analyzers) :
            RunOf(i).ok =>
                \A k \in DOMAIN RunOf(i).value :
                    /\ k \in DOMAIN tpResult.value
                    /\ tpResult.value[k] = RunOf(Last(Emitters(k))).value[k]

\* C9: with no analyzer registered process_transaction returns Ok with the
\* map of the one entry "status" -> "No analyzers configured".
C9_NoAnalyzers ==
    (tpPc = "done" /\ Len(analyzers) = 0) =>
        /\ tpResult.ok
        /\ DOMAIN tpResult.value = {"status"}
        /\ tpResult.value["status"] = "No analyzers configured"

\* process_transaction has returned on an engine without analyzers
C9_Witness ==
    /\ tpPc = "done"
    /\ tpCaller = "top"
    /\ Len(analyzers) = 0
    /\ tpResult.ok

\* C10: process_batch never fails as a whole: for every input sequence, the
\* empty one included, and every behaviour of the analyzers it returns Ok.
C10_BatchNeverFails ==
    (bPc = "done") =>
        /\ bResult.ok
        /\ bResult.err = NoError

\* a batch of two transactions has returned although an analyzer failed on each
C10_Witness ==
    /\ bPc = "done"
    /\ Len(bTxs) = 2
    /\ Len(analyzers) > 0
    /\ \A i \in 1..Len(analyzers) : ~AnalyzerRun(analyzers[i], bTxs[1]).ok
    /\ bResult.ok

\* the stringified hashes of the batch's input transactions
InputHashes == {HashToString(bTxs[i].hash) : i \in 1..Len(bTxs)}

\* the positions of the input transactions whose stringified hash is h
PositionsOf(h) == {i \in 1..Len(bTxs) : HashToString(bTxs[i].hash) = h}

\* no two input transactions share a hash
DistinctHashes == \A h \in InputHashes : Cardinality(PositionsOf(h)) = 1

\* C11 as stated: the number of entries of the batch report equals the number
\* of input transactions.
C11_OneEntryPerInput ==
    (bPc = "done") =>
        /\ bResult.ok
        /\ Cardinality(DOMAIN bResult.value) = Len(bTxs)

\* C11 amended: the batch report has one entry per distinct input hash: every
\* input transaction's hash is a key, the number of entries equals the number
\* of distinct hashes, and it equals the number of input transactions when
\* the hashes are pairwise distinct.
C11_OneEntryPerHash ==
    (bPc = "done") =>
        /\ bResult.ok
        /\ \A i \in 1..Len(bTxs) : HashToString(bTxs[i].hash) \in DOMAIN bResult.value
        /\ Cardinality(DOMAIN bResult.value) = Cardinality(InputHashes)
        /\ DistinctHashes => (Cardinality(DOMAIN bResult.value) = Len(bTxs))

\* a batch of two transactions with distinct hashes has returned two entries
C11_Witness ==
    /\ bPc = "done"
    /\ Len(bTxs) = 2
    /\ DistinctHashes
    /\ bResult.ok
    /\ Cardinality(DOMAIN bResult.value) = 2

RECURSIVE MergedUpTo(_, _)
\* the map the first n registered analyzers leave for transaction tx
MergedUpTo(n, tx) ==
    IF n = 0 THEN EmptyMap
    ELSE MatchAnalyzer(MergedUpTo(n - 1, tx), n - 1, AnalyzerRun(analyzers[n], tx))

\* what process_transaction returns for tx with the registered analyzers
ProcessOf(tx) ==
    IF Len(analyzers) = 0 THEN NoAnalyzersResult
    ELSE ProcessResult(MergedUpTo(Len(analyzers), tx))

\* C12: the batch report is keyed by the stringified transaction hash, and
\* the entry of a hash shared by several input transactions is the result of
\* the last of them in input order.
C12_LastDuplicateWins ==
    (bPc = "done") =>
        /\ DOMAIN bResult.value = InputHashes
        /\ \A h \in InputHashes :
              bResult.value[h] = ProcessOf(bTxs[Last(PositionsOf(h))]).value

\* two transactions of one hash with different results; the second one's stays
C12_Witness ==
    /\ bPc = "done"
    /\ Len(bTxs) = 2
    /\ bTxs[1].hash = bTxs[2].hash
    /\ ProcessOf(bTxs[1]).value # ProcessOf(bTxs[2]).value
    /\ bResult.value[HashToString(bTxs[2].hash)] = ProcessOf(bTxs[2]).value

\* C13: over transactions with pairwise distinct hashes the key set of the
\* batch report is exactly the set of input hashes and the entry of each hash
\* equals what process_transaction returns for that transaction.
C13_DistinctHashesReport ==
    (bPc = "done" /\ DistinctHashes) =>
        /\ DOMAIN bResult.value = InputHashes
        /\ \A i \in 1..Len(bTxs) :
              /\ ProcessOf(bTxs[i]).ok
              /\ bResult.value[HashToString(bTxs[i].hash)] = ProcessOf(bTxs[i]).value

\* "0x123" and "0x456" processed by analyzers that return entries
C13_Witness ==
    /\ bPc = "done"
    /\ Len(bTxs) = 2
    /\ DistinctHashes
    /\ InputHashes = {"0x123", "0x456"}
    /\ Len(analyzers) = 2
    /\ \A i \in 1..2 : DOMAIN bResult.value[HashToString(bTxs[i].hash)] # {}

(***************************************************************************)
(* Properties of both engines.                                             *)
(***************************************************************************)
\* C14: two calls of analyze_contract with the same address and scanners
\* return the same findings and risk level, or the same error; two calls of
\* process_transaction with the same transaction and analyzers return the
\* same result map; only the scan_timestamp metadata may differ.
C14_Deterministic ==
    /\ (saPc = "done" /\ HasResult(saPrev)) =>
          /\ saPrev.ok = saResult.ok
          /\ saPrev.ok =>
                /\ saPrev.value.findings = saResult.value.findings
                /\ saPrev.value.risk_level = saResult.value.risk_level
                /\ \A k \in DOMAIN saResult.value.metadata \ {"scan_timestamp"} :
                      saPrev.value.metadata[k] = saResult.value.metadata[k]
          /\ ~saPrev.ok => (saPrev.err = saResult.err)
    /\ (tpPc = "done" /\ HasResult(tpPrev)) =>
          /\ tpPrev.ok /\ tpResult.ok
          /\ tpPrev.value = tpResult.value

\* the second of two analyze_contract calls has returned findings, and the
\* two scan timestamps differ
C14_Witness ==
    /\ saPc = "done"
    /\ HasResult(saPrev)
    /\ saPrev.ok /\ saResult.ok
    /\ Len(saResult.value.findings) > 0
    /\ Len(scanners) > 0
    /\ saPrev.value.metadata["scan_timestamp"]
          # saResult.value.metadata["scan_timestamp"]

\* the number of positions of list at which p stands
Count(list, p) == Cardinality({i \in 1..Len(list) : list[i] = p})

\* the number of invocations of p among the invoked positions of list
Invocations(list, invoked, p) ==
    Cardinality({j \in 1..Len(invoked) : list[invoked[j]] = p})

\* a registration leaves list as a prefix of list' and adds one entry
Appended(list, list2) ==
    /\ Len(list2) = Len(list) + 1
    /\ SubSeq(list2, 1, Len(list)) = list

\* C15: register_scanner and register_analyzer append the plugin at the end
\* of the list and leave the existing entries and their order unchanged, and
\* a successful analyze_contract or process_transaction call has invoked every
\* plugin as many times as it is registered.
C15_RegisterAppends ==
    /\ [][/\ (scanners' # scanners) => Appended(scanners, scanners')
          /\ (analyzers' # analyzers) => Appended(analyzers, analyzers')]_vars
    /\ []((saPc = "done" /\ saResult.ok) =>
             \A p \in ScannerPool :
                Invocations(scanners, saInvoked, p) = Count(scanners, p))
    /\ []((tpPc = "done") =>
             \A p \in AnalyzerPool :
                Invocations(analyzers, tpInvoked, p) = Count(analyzers, p))

\* a scanner registered twice, after another one, has been invoked twice by a
\* successful call
C15_Witness ==
    /\ saPc = "done"
    /\ saResult.ok
    /\ Len(scanners) = 3
    /\ scanners[1] # scanners[2]
    /\ scanners[2] = scanners[3]
    /\ Invocations(scanners, saInvoked, scanners[2]) = 2

Digit(d) == SubSeq("0123456789", d + 1, d + 1)

RECURSIVE Decimal(_)
\* the decimal string of a natural number
Decimal(n) == IF n < 10 THEN Digit(n) ELSE Decimal(n \div 10) \o Digit(n % 10)

\* C16: every SecurityAnalysis returned by analyze_contract has metadata with
\* exactly the keys scan_timestamp and scanner_count, and scanner_count is the
\* decimal string of the number of registered scanners, duplicates counted.
C16_MetadataKeys ==
    (saPc = "done" /\ saResult.ok) =>
        /\ DOMAIN saResult.value.metadata = {"scan_timestamp", "scanner_count"}
        /\ saResult.value.metadata["scanner_count"] = Decimal(Len(scanners))

\* an analysis over three registered scanners, two of them the same
C16_Witness ==
    /\ saPc = "done"
    /\ saResult.ok
    /\ Len(scanners) = 3
    /\ scanners[1] = scanners[3]
    /\ saResult.value.metadata["scanner_count"] = "3"

\* the map process_transaction returns with zero analyzers
NoAnalyzersMap == [k \in {"status"} |-> "No analyzers configured"]

\* C17: "no plugins configured" and "a plugin failed" are distinguishable:
\* analyze_contract returns Ok with the marker finding without scanners and Err
\* when a scanner failed; process_transaction returns the map {"status": "No
\* analyzers configured"} without analyzers and never that map when a
\* registered analyzer failed.
C17_NoPluginsVsFailure ==
    /\ (saPc = "done" /\ Len(scanners) = 0) =>
          /\ saResult.ok
          /\ saResult.value.findings = <<"No security scanners configured">>
    /\ (saPc = "done" /\ \E j \in 1..Len(saInvoked) : ~ScanOf(saInvoked[j]).ok) =>
          ~saResult.ok
    /\ (tpPc = "done" /\ Len(analyzers) = 0) =>
          (tpResult.ok /\ tpResult.value = NoAnalyzersMap)
    /\ (tpPc = "done" /\ FailingAnalyzers # {}) =>
          (tpResult.ok /\ tpResult.value # NoAnalyzersMap)

\* process_transaction has returned after its only analyzer failed
C17_Witness ==
    /\ tpPc = "done"
    /\ Len(analyzers) = 1
    /\ FailingAnalyzers = {1}
    /\ tpResult.ok
    /\ tpResult.value # NoAnalyzersMap

(***************************************************************************)
(* Properties of is_contract.                                              *)
(***************************************************************************)
\* what get_contract returned to the is_contract call in progress
Retrieved == provider[icAddr]

\* get_contract failed and the failure is a BlockchainError::ContractNotFound
\* handed over as the source of an Error
FailedContractNotFound(r) ==
    /\ ~r.ok
    /\ r.err.kind = "Other"
    /\ r.err.payload.variant = "ContractNotFound"

\* C18: is_contract calls get_contract once and returns Ok(true) when it
\* succeeds, Ok(false) when it fails with BlockchainError::ContractNotFound,
\* and otherwise the very error get_contract produced.
C18_IsContract ==
    (icPc = "done") =>
        /\ icCalls = 1
        /\ Retrieved.ok => (icResult.ok /\ icResult.value = TRUE)
        /\ FailedContractNotFound(Retrieved) =>
              (icResult.ok /\ icResult.value = FALSE)
        /\ (~Retrieved.ok /\ ~FailedContractNotFound(Retrieved)) =>
              (~icResult.ok /\ icResult.err = Retrieved.err)

\* C19: when get_contract fails with an error of kind NotFound, is_contract
\* returns Ok(false) rather than an error.
C19_NotFoundIsFalse ==
    (icPc = "done" /\ ~Retrieved.ok /\ Retrieved.err.kind = "NotFound") =>
        (icResult.ok /\ icResult.value = FALSE)

(***************************************************************************)
(* Properties of the order on RiskLevel.                                   *)
(***************************************************************************)
\* the chain None < Low < Medium < High < Critical
Chain == <<"None", "Low", "Medium", "High", "Critical">>

\* the place of a level in the chain
PlaceOf(r) == CHOOSE i \in 1..Len(Chain) : Chain[i] = r

\* C20: RiskLevel is totally ordered with None < Low < Medium < High <
\* Critical: any two levels compare as Less, Equal or Greater according to
\* their places in the chain, the order is strict (Equal for the same level
\* only, Less one way means Greater the other way) and transitive, and the
\* maximum of a pair is the one of the two that is not less than the other.
C20_TotalOrder ==
    (ordOut # NoComparisons) =>
        LET a == ordIn[1]
            b == ordIn[2]
            c == ordIn[3]
        IN  /\ ordOut.ab \in {"Less", "Equal", "Greater"}
            /\ (ordOut.ab = "Less") <=> (PlaceOf(a) < PlaceOf(b))
            /\ (ordOut.ab = "Equal") <=> (a = b)
            /\ (ordOut.ab = "Less") <=> (ordOut.ba = "Greater")
            /\ (ordOut.ab = "Less" /\ ordOut.bc = "Less") => (ordOut.ac = "Less")
            /\ ordOut.max_ab \in {a, b}
            /\ PlaceOf(ordOut.max_ab) >= PlaceOf(a)
            /\ PlaceOf(ordOut.max_ab) >= PlaceOf(b)

\* None, Medium and Critical have been compared
C20_Witness ==
    /\ ordOut # NoComparisons
    /\ ordIn = <<"None", "Medium", "Critical">>
    /\ ordOut.ab = "Less" /\ ordOut.bc = "Less" /\ ordOut.ac = "Less"
    /\ ordOut.max_ab = "Medium"

(***************************************************************************)
(* Order of the plugin invocations, frame and order-independence.          *)
(***************************************************************************)
\* the positions 1, 2, .. n in this order
InOrder(invoked) == \A j \in 1..Len(invoked) : invoked[j] = j

\* C21: in analyze_contract, if the scanner at index i is the first to fail,
\* every scanner below i and scanner i have been invoked exactly once, in
\* registration order, and no scanner above i is invoked by that call.
C21_FailFastOrder ==
    /\ (saPc \in {"scan", "done"}) =>
          /\ InOrder(saInvoked)
          /\ Len(saInvoked) <= Len(scanners)
    /\ (saPc = "scan") =>
          /\ Len(saInvoked) = saIdx - 1
          /\ \A j \in 1..Len(saInvoked) : ScanOf(j).ok
    /\ (saPc = "done" /\ FailingScanners # {}) =>
          /\ Len(saInvoked) = FirstFailing
          /\ \A j \in FirstFailing + 1..Len(scanners) :
                \A n \in 1..Len(saInvoked) : saInvoked[n] # j

\* the second of three scanners failed: the first two were invoked, the
\* third one was not
C21_Witness ==
    /\ saPc = "done"
    /\ Len(scanners) = 3
    /\ FailingScanners # {}
    /\ FirstFailing = 2
    /\ saInvoked = <<1, 2>>

\* C22: process_transaction with a non-empty analyzer list invokes every
\* registered analyzer exactly once, in registration order, whether or not an
\* earlier analyzer failed, and every key of every analyzer that succeeded
\* is in the returned map, which is the merge of the analyzers in that order.
C22_FailSoftOrder ==
    /\ (tpPc \in {"loop", "done"}) =>
          /\ InOrder(tpInvoked)
          /\ Len(tpInvoked) <= Len(analyzers)
    /\ (tpPc = "done" /\ Len(analyzers) > 0) =>
          /\ Len(tpInvoked) = Len(analyzers)
          /\ \A i \in 1..Len(analyzers) :
                RunOf(i).ok => (DOMAIN RunOf(i).value \subseteq DOMAIN tpResult.value)
          /\ \A k \in DOMAIN tpResult.value :
                \/ Emitters(k) # {}
                \/ \E i \in FailingAnalyzers : k = ErrorKey(i - 1)

\* the first of two analyzers failed and the second one was still invoked and
\* its entries returned
C22_Witness ==
    /\ tpPc = "done"
    /\ Len(analyzers) = 2
    /\ FailingAnalyzers = {1}
    /\ tpInvoked = <<1, 2>>
    /\ DOMAIN RunOf(2).value # {}
    /\ DOMAIN RunOf(2).value \subseteq DOMAIN tpResult.value

\* a step of an analyze_contract call
AnalyzeCallStep == saPc # "idle" \/ saPc' # "idle"

\* a step of a process_transaction or process_batch call
ProcessCallStep == tpPc # "idle" \/ tpPc' # "idle" \/ bPc # "idle" \/ bPc' # "idle"

\* C24: analyze_contract, process_transaction and process_batch leave the
\* registered plugin list as it is, whether they succeed or fail; the list
\* changes only while no call is in progress, by a registration.
C24_CallsKeepPlugins ==
    [][/\ AnalyzeCallStep => (scanners' = scanners)
       /\ ProcessCallStep => (analyzers' = analyzers)
       /\ (scanners' # scanners) => (saPc = "idle" /\ Appended(scanners, scanners'))
       /\ (analyzers' # analyzers) =>
             (tpPc = "idle" /\ bPc = "idle" /\ Appended(analyzers, analyzers'))]_vars

\* a call failed, and the next call has run on the same two scanners
C24_Witness ==
    /\ saPc = "done"
    /\ HasResult(saPrev)
    /\ ~saPrev.ok
    /\ Len(scanners) = 2
    /\ Len(saInvoked) > 0

\* the rearrangements of the positions of a sequence
Rearrangements(n) ==
    {p \in [1..n -> 1..n] : \A i, j \in 1..n : (p[i] = p[j]) => (i = j)}

\* the sequence with its elements in the order p
Permuted(findings, p) == [i \in 1..Len(findings) |-> findings[p[i]]]

\* C26: the derived risk level is the same for every permutation of the
\* finding sequence.
C26_OrderIndependent ==
    (rkOut # Unset) =>
        \A p \in Rearrangements(Len(rkIn)) :
            calculate_risk_level(Permuted(rkIn, p)) = rkOut

\* two findings of different levels, the more severe one last
C26_Witness ==
    /\ rkOut # Unset
    /\ Len(rkIn) = 2
    /\ RiskGt(ClassifyFinding(rkIn[2]), ClassifyFinding(rkIn[1]))
    /\ rkOut = ClassifyFinding(rkIn[2])
    /\ calculate_risk_level(<<rkIn[2], rkIn[1]>>) = rkOut

(***************************************************************************)
(* Properties of retry_with_backoff.                                       *)
(***************************************************************************)
\* the invocations of f made so far that failed
FailedCalls == {n \in 1..rtCalls : ~rtF[n]}

\* C29: f is invoked at most max_retries + 1 times; the call returns Ok with
\* the value of the first successful invocation and f is not invoked after
\* it; if all max_retries + 1 invocations fail the call returns the error of
\* the last one; with max_retries = 0 f is invoked exactly once.
C29_RetryBound ==
    /\ (rtPc # "idle") => (rtCalls <= rtMax + 1)
    /\ (rtPc \in {"call", "sleep"}) => (FailedCalls = 1..rtCalls)
    /\ (rtPc = "done") =>
          /\ rtCalls >= 1
          /\ FailedCalls = 1..rtCalls - 1 \/ FailedCalls = 1..rtCalls
          /\ rtF[rtCalls] => (rtResult = Invoke(rtF, rtCalls))
          /\ ~rtF[rtCalls] =>
                /\ rtCalls = rtMax + 1
                /\ rtResult = Invoke(rtF, rtMax + 1)
          /\ (rtMax = 0) => (rtCalls = 1)

\* two failures, then the third invocation succeeds, of the four allowed
C29_Witness ==
    /\ rtPc = "done"
    /\ rtMax = 3
    /\ rtCalls = 3
    /\ FailedCalls = {1, 2}
    /\ rtResult.ok
    /\ ~rtF[4]

RECURSIVE Pow2(_)
Pow2(n) == IF n = 0 THEN 1 ELSE 2 * Pow2(n - 1)

\* C30: the wait between the k-th failed invocation and the next invocation
\* is initial_delay * 2^(k-1); there is no wait before the first invocation,
\* after a success, or after the final failure.
C30_ExponentialBackoff ==
    /\ \A k \in 1..Len(rtSleeps) :
          /\ rtSleeps[k].after = k
          /\ rtSleeps[k].delay = rtInitial * Pow2(k - 1)
    /\ (rtPc = "call") => (Len(rtSleeps) = rtCalls)
    /\ (rtPc = "sleep") => (Len(rtSleeps) = rtCalls - 1)
    /\ (rtPc = "done") => (Len(rtSleeps) = rtCalls - 1 /\ Len(rtSleeps) <= rtMax)

\* three waits of 10, 20 and 40 ms before the fourth invocation, which fails
C30_Witness ==
    /\ rtPc = "done"
    /\ rtInitial = 10
    /\ rtCalls = 4
    /\ ~rtResult.ok
    /\ Len(rtSleeps) = 3
    /\ rtSleeps[3].delay = 40

(***************************************************************************)
(* Plugin invocations within one call.                                     *)
(***************************************************************************)
\* the invocations of a call that have begun and not completed
InFlight(log) ==
    Cardinality({k \in 1..Len(log) : log[k].ev = "start"})
        - Cardinality({k \in 1..Len(log) : log[k].ev = "end"})

\* every invocation ends before the next begins
OneAtATime(log) ==
    \A k \in 1..Len(log) :
        IF k % 2 = 1
        THEN log[k].ev = "start"
        ELSE /\ log[k].ev = "end"
             /\ log[k].tx = log[k - 1].tx
             /\ log[k].plugin = log[k - 1].plugin

\* transactions in input order, each one's invocations before the next one's
TransactionsInTurn(log) ==
    \A k, l \in 1..Len(log) : k < l => log[k].tx <= log[l].tx

\* C23: within one analyze_contract, process_transaction or process_batch call
\* at most one plugin invocation is in flight: an invocation begins only after
\* the one before it has completed, and in a batch every invocation for one
\* transaction completes before the first one for the next transaction begins.
C23_OneInvocationInFlight ==
    \A c \in Callers :
        /\ OneAtATime(calls[c].log)
        /\ InFlight(calls[c].log) = (IF calls[c].pc = "await" THEN 1 ELSE 0)
        /\ TransactionsInTurn(calls[c].log)

\* a batch of two transactions has been through two analyzers each
C23_Witness ==
    /\ calls["c1"].op = "batch"
    /\ calls["c1"].pc = "done"
    /\ Len(calls["c1"].log) = 8
    /\ calls["c1"].log[4].tx = 1
    /\ calls["c1"].log[5].tx = 2

(***************************************************************************)
(* Isolation of concurrent calls.                                          *)
(***************************************************************************)
RECURSIVE AloneScan(_, _, _)
\* the findings or the failure of analyze_contract(address) run alone, from
\* scanner i on; NoResult when it reaches a scanner that never completes
AloneScan(i, address, findings) ==
    IF i > Len(scanners) THEN Ok(findings)
    ELSE IF scanners[i] \in HangingPlugins THEN NoResult
    ELSE LET r == ScannerScan(scanners[i], address) IN
         IF r.ok THEN AloneScan(i + 1, address, ExtendFindings(findings, r.value))
         ELSE Err(ScannerFailed(i - 1, r.err))

\* what analyze_contract(address) returns when run alone at time now
AloneAnalyze(address, now) ==
    IF Len(scanners) = 0 THEN EmptyAnalysis(ScanMetadata(now, 0))
    ELSE LET r == AloneScan(1, address, <<>>) IN
         IF r.ok THEN FullAnalysis(r.value, ScanMetadata(now, Len(scanners)))
         ELSE r

RECURSIVE AloneAnalyzers(_, _, _)
\* the map of process_transaction(tx) run alone, from analyzer i on
AloneAnalyzers(i, tx, combined_results) ==
    IF i > Len(analyzers) THEN ProcessResult(combined_results)
    ELSE IF analyzers[i] \in HangingPlugins THEN NoResult
    ELSE AloneAnalyzers(i + 1, tx,
             MatchAnalyzer(combined_results, i - 1, AnalyzerRun(analyzers[i], tx)))

\* what process_transaction(tx) returns when run alone
AloneProcess(tx) ==
    IF Len(analyzers) = 0 THEN NoAnalyzersResult
    ELSE AloneAnalyzers(1, tx, EmptyMap)

RECURSIVE AloneBatch(_, _, _)
\* what process_batch(transactions) returns when run alone, from position j on
AloneBatch(j, transactions, batch_results) ==
    IF j > Len(transactions) THEN BatchResult(batch_results)
    ELSE LET r == AloneProcess(transactions[j]) IN
         IF ~HasResult(r) THEN NoResult
         ELSE AloneBatch(j + 1, transactions,
                  BatchInsert(batch_results, HashToString(transactions[j].hash),
                              BatchEntry(r)))

\* the Result a call holds is the one the same call returns when run alone
ReturnsAsAlone(call) ==
    CASE call.op = "analyze" ->
            \E now \in ClockValues : call.result = AloneAnalyze(call.address, now)
      [] call.op = "process" -> call.result = AloneProcess(call.tx)
      [] call.op = "batch" -> call.result = AloneBatch(1, call.txs, EmptyMap)
      [] OTHER -> FALSE

\* C25: concurrent top-level calls on one engine are isolated: in every
\* interleaving a call that has finished holds the findings, the result map or
\* the failure it would return when run alone.
C25_CallsIsolated ==
    \A c \in Callers :
        calls[c].pc = "done" =>
            /\ HasResult(calls[c].result)
            /\ ReturnsAsAlone(calls[c])

\* two calls for different addresses have both finished on an engine whose
\* first scanner reports the address: one's findings are not the other's
C25_Witness ==
    /\ calls["c1"].op = "analyze" /\ calls["c1"].pc = "done"
    /\ calls["c2"].op = "analyze" /\ calls["c2"].pc = "done"
    /\ calls["c1"].address # calls["c2"].address
    /\ calls["c1"].result.ok /\ calls["c2"].result.ok
    /\ calls["c1"].result.value.findings # calls["c2"].result.value.findings

(***************************************************************************)
(* Termination: no timeout, one invocation per plugin.                     *)
(***************************************************************************)
\* the plugin list a call goes through
PluginsOf(call) == IF call.op = "analyze" THEN scanners ELSE analyzers

\* the invocations a call has begun for the transaction at position j
Begun(call, j) ==
    {k \in 1..Len(call.log) : call.log[k].ev = "start" /\ call.log[k].tx = j}

\* no plugin is invoked twice for one transaction
OncePerPlugin(call) ==
    \A j \in 0..Len(call.txs) :
        /\ Cardinality(Begun(call, j)) <= Len(PluginsOf(call))
        /\ \A k, l \in Begun(call, j) :
              call.log[k].plugin = call.log[l].plugin => k = l

\* analyze_contract awaits a scanner that never completes
Stalled(c) ==
    /\ calls[c].op = "analyze"
    /\ calls[c].pc = "await"
    /\ scanners[calls[c].idx] \in HangingPlugins

\* the Result of the call run alone: NoResult when a plugin it invokes never
\* completes
AloneResult(call) ==
    CASE call.op = "analyze" -> AloneScan(1, call.address, <<>>)
      [] call.op = "process" -> AloneProcess(call.tx)
      [] call.op = "batch" -> AloneBatch(1, call.txs, EmptyMap)
      [] OTHER -> NoResult

\* a call is under way and every plugin it invokes completes
WillComplete(c) ==
    /\ calls[c].op # "none"
    /\ HasResult(AloneResult(calls[c]))

\* C27: the engines impose no timeout.  analyze_contract awaiting a scanner that
\* never completes stays there for ever, and a finished analyze_contract has
\* invoked only scanners that complete; when every invoked plugin completes the
\* call finishes, and no call invokes a plugin more than once (per transaction
\* in a batch).
C27_NoTimeout ==
    /\ \A c \in Callers : [](Stalled(c) => []Stalled(c))
    /\ \A c \in Callers :
          [](calls[c].op = "analyze" /\ calls[c].pc = "done"
                => HasResult(AloneResult(calls[c])))
    /\ \A c \in Callers : WillComplete(c) ~> (calls[c].pc = "done")
    /\ \A c \in Callers : []OncePerPlugin(calls[c])

\* the first scanner has returned and the call awaits a second one that never
\* completes
C27_Witness ==
    /\ Stalled("c1")
    /\ calls["c1"].idx = 2
    /\ Len(calls["c1"].findings) > 0

(***************************************************************************)
(* An analyzer that never completes.                                       *)
(***************************************************************************)
RECURSIVE OtherAnalyzers(_, _, _)
\* the results of the analyzers that complete, merged in registration order
OtherAnalyzers(i, tx, combined_results) ==
    IF i > Len(analyzers) THEN combined_results
    ELSE IF analyzers[i] \in HangingPlugins
         THEN OtherAnalyzers(i + 1, tx, combined_results)
         ELSE OtherAnalyzers(i + 1, tx,
                  MatchAnalyzer(combined_results, i - 1, AnalyzerRun(analyzers[i], tx)))

\* process_transaction is under way on an engine one of whose analyzers never
\* completes while the others do
OneAnalyzerHangs(c) ==
    /\ calls[c].op = "process"
    /\ Len(analyzers) > 1
    /\ Cardinality({i \in 1..Len(analyzers) : analyzers[i] \in HangingPlugins}) = 1

\* C28: in the fail-soft engine an analyzer that never completes stalls only
\* its own contribution: process_transaction eventually returns a map holding
\* the results of the other analyzers.
C28_HungAnalyzerStallsItself ==
    \A c \in Callers :
        OneAnalyzerHangs(c) ~>
            /\ calls[c].pc = "done"
            /\ calls[c].result.ok
            /\ calls[c].result.value = OtherAnalyzers(1, calls[c].tx, EmptyMap)

(***************************************************************************)
(* Consistency of a report; the built-in scanners.                         *)
(***************************************************************************)
\* C35: in every SecurityAnalysis returned by analyze_contract, the report of
\* an engine without scanners included, risk_level is the risk derivation
\* applied to the findings of that same report.
C35_ReportConsistent ==
    (saPc = "done" /\ saResult.ok) =>
        /\ saResult.value.risk_level = calculate_risk_level(saResult.value.findings)
        /\ saResult.value.risk_level = MaxLevel(LevelsOf(saResult.value.findings))

\* a report of three scanners whose findings give Critical
C35_Witness ==
    /\ saPc = "done"
    /\ saResult.ok
    /\ Len(scanners) = 3
    /\ Len(saResult.value.findings) >= 5
    /\ saResult.value.risk_level = "Critical"

\* the scanners of the engine, as a set
Registered == {scanners[i] : i \in 1..Len(scanners)}

\* the built-in scanners
BuiltIn == {"ReentrancyScanner", "IntegerOverflowScanner", "AccessControlScanner"}

\* C38: with only ReentrancyScanner registered analyze_contract yields Medium,
\* with only IntegerOverflowScanner Medium, with only AccessControlScanner
\* Critical (its finding labelled "High:" contains "critical"), and with all
\* three registered Critical.
C38_BuiltInScanners ==
    (saPc = "done" /\ Len(scanners) > 0 /\ Registered \subseteq BuiltIn) =>
        /\ saResult.ok
        /\ (Registered = {"ReentrancyScanner"}) => (saResult.value.risk_level = "Medium")
        /\ (Registered = {"IntegerOverflowScanner"}) => (saResult.value.risk_level = "Medium")
        /\ (Registered = {"AccessControlScanner"}) => (saResult.value.risk_level = "Critical")
        /\ (Registered = BuiltIn) => (saResult.value.risk_level = "Critical")
        /\ ClassifyFinding("High: Missing access control on critical function") = "Critical"

\* the three built-in scanners are registered and the report is Critical
C38_Witness ==
    /\ saPc = "done"
    /\ Registered = BuiltIn
    /\ saResult.ok
    /\ saResult.value.risk_level = "Critical"
    /\ Len(saResult.value.findings) = 7

(***************************************************************************)
(* The Err arm of process_batch; the keys of a process_transaction map.    *)
(***************************************************************************)
\* the step of the batch loop that inserts an entry
BatchCollectStep == bPc = "await" /\ bPc' = "loop"

\* an entry process_batch makes up itself: {"error": "Processing failed: .."}
ErrorEntry(entry) ==
    /\ DOMAIN entry = {"error"}
    /\ StartsWith(entry["error"], "Processing failed: ")

\* C36: the Err arm of process_batch is never taken: process_transaction has
\* returned Ok whenever the loop matches on its result, so the entry inserted
\* is exactly the map process_transaction returned and never the substitute
\* {"error": "Processing failed: ..."}.
C36_ErrorBranchUnreachable ==
    [][BatchCollectStep =>
          /\ tpResult.ok
          /\ HashToString(bTxs[bIdx].hash) \in DOMAIN bResults'
          /\ bResults'[HashToString(bTxs[bIdx].hash)] = tpResult.value
          /\ ~ErrorEntry(bResults'[HashToString(bTxs[bIdx].hash)])]_vars

\* the entry of the first transaction is in, and it records the failure of an
\* analyzer under the engine's key, not under "error"
C36_Witness ==
    /\ bPc = "loop"
    /\ bIdx = 2
    /\ Len(analyzers) > 0
    /\ ~AnalyzerRun(analyzers[1], bTxs[1]).ok
    /\ ErrorKey(0) \in DOMAIN bResults[HashToString(bTxs[1].hash)]

\* the keys the engine writes for transaction tx: those of the analyzers that
\* succeeded and "analyzer_<i>_error" of those that failed
EngineKeys(tx) ==
    UNION {LET r == AnalyzerRun(analyzers[i], tx) IN
           IF r.ok THEN DOMAIN r.value ELSE {ErrorKey(i - 1)} :
           i \in 1..Len(analyzers)}

\* C37: with at least one analyzer registered the key set of the map returned
\* by process_transaction is exactly the keys emitted by the analyzers that
\* succeeded together with "analyzer_<i>_error" of those that failed; when
\* every analyzer succeeds with an empty map the result is the empty map, not
\* the "No analyzers configured" marker.
C37_ExactKeys ==
    (tpPc = "done" /\ Len(analyzers) > 0) =>
        /\ tpResult.ok
        /\ DOMAIN tpResult.value = EngineKeys(tpTx)
        /\ (\A i \in 1..Len(analyzers) : RunOf(i).ok /\ DOMAIN RunOf(i).value = {})
              => /\ DOMAIN tpResult.value = {}
                 /\ "status" \notin DOMAIN tpResult.value

\* every registered analyzer returned an empty map and so did the engine
C37_Witness ==
    /\ tpPc = "done"
    /\ Len(analyzers) = 2
    /\ \A i \in 1..Len(analyzers) : RunOf(i).ok /\ DOMAIN RunOf(i).value = {}
    /\ tpResult.ok
    /\ DOMAIN tpResult.value = {}

(***************************************************************************)
(* The ML analyzer.                                                        *)
(***************************************************************************)
\* C32: MLTransactionAnalyzer.analyze_transaction never fails and returns
\* exactly the keys gas_efficiency, anomaly_score and ml_analysis, with
\* anomaly_score "0.0", ml_analysis "placeholder" and gas_efficiency
\* "inefficient" exactly when gas_price > 100 ("efficient" at 100).
C32_MLAnalyzer ==
    HasResult(mlOut) =>
        /\ mlOut.ok
        /\ DOMAIN mlOut.value = {"gas_efficiency", "anomaly_score", "ml_analysis"}
        /\ mlOut.value["anomaly_score"] = "0.0"
        /\ mlOut.value["ml_analysis"] = "placeholder"
        /\ mlOut.value["gas_efficiency"] \in {"inefficient", "efficient"}
        /\ (mlOut.value["gas_efficiency"] = "inefficient") <=> (mlTx.gas_price > 100)
        /\ (mlTx.gas_price = 100) => (mlOut.value["gas_efficiency"] = "efficient")

\* a transaction with gas_price exactly 100 has been analyzed
C32_Witness ==
    /\ HasResult(mlOut)
    /\ mlTx.gas_price = 100
    /\ mlOut.value["gas_efficiency"] = "efficient"

(***************************************************************************)
(* The total cost of a transaction.                                        *)
(***************************************************************************)
\* C34: Transaction.total_cost equals value + gas_price * gas_limit for all
\* field values: the call returns, and what it returns is the exact sum, never
\* a smaller wrapped total.
C34_TotalCostExact ==
    (tcOut # NoCost) =>
        /\ tcOut.kind = "value"
        /\ tcOut.value = tcTx.value + tcTx.gas_price * tcTx.gas_limit

(***************************************************************************)
(* Hex conversion.                                                         *)
(***************************************************************************)
\* the argument without its optional "0x" prefix
HexBody(s) == IF StartsWith(s, "0x") THEN SubSeq(s, 3, Len(s)) ELSE s

\* a valid hex string: an even number of hex digits after the optional prefix
ValidHex(s) ==
    /\ Len(HexBody(s)) % 2 = 0
    /\ \A i \in 1..Len(HexBody(s)) : IsHexDigit(SubSeq(HexBody(s), i, i))

\* C33: hex_to_bytes returns an error value for every invalid hex string (a
\* character that is no hex digit, or an odd number of digits after the
\* optional "0x" prefix) and never aborts; for every valid string it returns
\* the bytes, and bytes_to_hex of them is the lower-cased string with a single
\* "0x" prefix.
C33_HexErrorsAndRoundTrip ==
    (hxOut # NoHex) =>
        /\ hxOut.kind # "panic"
        /\ ~ValidHex(hxIn) => hxOut.kind = "err"
        /\ ValidHex(hxIn) =>
              /\ hxOut.kind = "ok"
              /\ bytes_to_hex(hxOut.bytes) = "0x" \o to_lowercase(HexBody(hxIn))

(***************************************************************************)
(* Logger initialisation.                                                  *)
(***************************************************************************)
\* the tasks whose call has returned
ReturnedTasks == {t \in LogTasks : lgTask[t].pc = "returned"}

\* C39: over every interleaving of init_logger, init_logger_with_level and
\* init_json_logger calls the initialising body runs at most once, for the
\* task that got the permit first; no other call installs anything, whatever
\* level or format it asked for; no call panics; and a call returns only when
\* the cell is set and the one subscriber installed.
C39_LoggerInitialisedOnce ==
    /\ Len(lgRuns) <= 1
    /\ Len(lgInstalled) = Len(lgRuns)
    /\ \A t \in LogTasks : lgTask[t].pc # "panicked"
    /\ (lgPermit # "free") => (lgRuns = <<>> \/ lgRuns = <<lgPermit>>)
    /\ \A t \in LogTasks :
          lgTask[t].pc \in {"body", "set"} => lgPermit = t
    /\ (ReturnedTasks # {}) =>
          /\ initialized
          /\ Len(lgRuns) = 1
          /\ Len(lgInstalled) = 1

\* a JSON call and a DEBUG call have returned after a third task installed the
\* default text subscriber: their format and level were ignored
C39_Witness ==
    /\ lgEnv = ""
    /\ lgRuns = <<"t1">>
    /\ lgInstalled = <<[json |-> FALSE, filter |-> "common=INFO"]>>
    /\ lgTask["t2"].pc = "returned"
    /\ lgTask["t2"].request.fn = "init_json_logger"
    /\ lgTask["t3"].pc = "returned"
    /\ lgTask["t3"].request.filter = "common=DEBUG"

(***************************************************************************)
(* with_timeout.                                                           *)
(***************************************************************************)
\* the earlier of the completion of the future and the timeout
FirstOf(timeout, future) ==
    IF future.ready_at # Never /\ future.ready_at < timeout
    THEN future.ready_at ELSE timeout

====
